---- MODULE Spec2Model ----
(***************************************************************************)
(* The read-through cache of the catalog endpoints (store/views.py,        *)
(* CachingMixin, CategoryViewSet, ProductViewSet) over the Category,       *)
(* Product and OrderItem tables (store/models.py).                         *)
(*                                                                         *)
(* Spec: one action is one request of an admin user handled from start to  *)
(* end (one request at a time, no cache call raises), one TTL expiry of a  *)
(* cache entry, or one order line written by the order side of the         *)
(* application.                                                            *)
(*                                                                         *)
(* StepSpec: the same handlers statement by statement, with the permission *)
(* check in front: one action is one cache call or one database call of a  *)
(* request in flight, requests of several users run on several workers at  *)
(* once, and a cache call may raise.                                       *)
(*                                                                         *)
(* SaveSpec: Product.save called on the model itself.                      *)
(*                                                                         *)
(* LiveSpec: the requests of Spec followed by the cache's expiry, taken as  *)
(* a fair step.                                                            *)
(*                                                                         *)
(* TaskSpec: the celery tasks of store/tasks.py that process an order       *)
(* (process_order_async, send_order_confirmation_email,                    *)
(* send_low_stock_alert), statement by statement on several workers, over  *)
(* the Order table and the stock column of the Product table.              *)
(*                                                                         *)
(* RedeliverySpec, CleanupSpec, RacingSpec: the same tasks with worker      *)
(* processes that may be lost, with cleanup_expired_orders, and for two    *)
(* orders of one product at once.                                          *)
(*                                                                         *)
(* BatchSpec: the read requests with bulk_update_prices and                *)
(* update_product_popularity running between them.                         *)
(*                                                                         *)
(* Rows are the rows of the viewsets' querysets (is_active = True).  A     *)
(* category carries its slug, a product its name, price, discount_price,   *)
(* is_featured and category; the other columns are never read by the       *)
(* cache layer and behave like name.                                       *)
(***************************************************************************)
EXTENDS Integers, Sequences, FiniteSets, TLC

VARIABLES
    categories,      \* Category table: id -> row
    products,        \* Product table: id -> row
    orderitems,      \* ids of the products referenced by at least one OrderItem
    nextCategoryId,  \* next AutoField value of Category
    nextProductId,   \* next AutoField value of Product
    cache,           \* django cache: key -> value, DOMAIN = populated keys
    paginated,       \* whether list responses are paginated (project settings)
    last,            \* the request handled last: response and what it did
    prev,            \* the request handled right before it, when that one
                     \* populated the cache
    swept,           \* collections mutated while their list was cached and
                     \* not listed (unparameterized) since
    updated,         \* <<collection, id>> changed by an update while its detail
                     \* was cached and not retrieved since
    requests,        \* number of requests handled
    pc,              \* requests in flight: worker -> the statement it is at
    call,            \* requests in flight: worker -> its locals and what it did
    failures,        \* number of calls of the cache, the broker or the mail
                     \* server that raised
    stock,           \* Product.stock: product id -> units
    orders,          \* Order table with its items: id -> row
    queue,           \* the broker: task messages waiting for a worker
    running,         \* celery workers: worker -> the task it executes
    submitted        \* number of tasks enqueued by the application

vars == <<categories, products, orderitems, nextCategoryId, nextProductId,
          cache, paginated, last, prev, swept, updated, requests,
          pc, call, failures, stock, orders, queue, running, submitted>>

\* What no request of the viewsets touches.
celery == <<stock, orders, queue, running, submitted>>

\* What a request handled in one piece leaves alone.
workers == <<pc, call, failures, celery>>

store == <<categories, products, orderitems, nextCategoryId, nextProductId>>

----------------------------------------------------------------------------
(* Bounds *)

MaxCategoryId == 2
MaxProductId == 2
MaxSlug == 2
MaxName == 1
MaxPrice == 1
MaxRequests == 5

CategoryIds == 1..MaxCategoryId
ProductIds == 1..MaxProductId
Slugs == 1..MaxSlug
Names == 1..MaxName
Prices == 1..MaxPrice

\* A nullable DecimalField: <<>> is None, <<d>> the value d.
Null == <<>>
Discounts == {Null} \cup {<<d>> : d \in 0..MaxPrice}

Collections == {"categories", "products"}

----------------------------------------------------------------------------
(* Values held by the cache and returned in responses *)

NoValue == [t |-> "none"]
Dict(d) == [t |-> "dict", d |-> d]
ListValue(items) == [t |-> "list", items |-> items]
PageValue(items) == [t |-> "page", count |-> Len(items), items |-> items]
KeysValue(keys) == [t |-> "keys", keys |-> keys]

\* Python truthiness of a value read from the cache.
Truthy(v) ==
    CASE v.t = "none" -> FALSE
      [] v.t = "dict" -> TRUE
      [] v.t = "page" -> TRUE
      [] v.t = "list" -> v.items # <<>>
      [] v.t = "keys" -> v.keys # <<>>

Range(s) == {s[i] : i \in DOMAIN s}

----------------------------------------------------------------------------
(* The cache store *)

CacheGet(ch, key, default) == IF key \in DOMAIN ch THEN ch[key] ELSE default

CacheSet(ch, key, value) ==
    [k \in DOMAIN ch \cup {key} |-> IF k = key THEN value ELSE ch[k]]

CacheDelete(ch, key) == [k \in DOMAIN ch \ {key} |-> ch[k]]

RECURSIVE CacheDeleteAll(_, _)
CacheDeleteAll(ch, keys) ==
    IF keys = <<>> THEN ch
    ELSE CacheDeleteAll(CacheDelete(ch, Head(keys)), Tail(keys))

----------------------------------------------------------------------------
(* Cache keys *)

\* What get_cache_key_list returns when the request bypasses the cache.
None == "None"

\* The page numbers a list request asks for; 0 is no page parameter.
Pages == {0, 2}

\* Query parameters of a list request; 0 is the empty string for search and
\* category__slug.
EmptyParams == [search |-> 0, ordering |-> "", category__slug |-> 0, page |-> 0]
Params == [search : {0} \cup Names, ordering : {"", "-id"},
           category__slug : {0} \cup Slugs, page : Pages]

\* get_cache_key_list forgetting the category filter
get_cache_key_list_NoCategory(cache_base_key, params) ==
    IF params.search # 0 \/ params.ordering # ""
    THEN None
    ELSE cache_base_key \o "_list:"

get_cache_key_list(cache_base_key, params) ==
    IF params.search # 0 \/ params.ordering # "" \/ params.category__slug # 0
    THEN None
    ELSE cache_base_key \o "_list:"

get_cache_key_detail(cache_base_key, instance_id) ==
    cache_base_key \o "_detail:" \o ToString(instance_id)

\* The key retrieve builds itself.
retrieve_cache_key(cache_base_key, instance_id) ==
    IF cache_base_key = "categories"
    THEN "category_detail:" \o ToString(instance_id)
    ELSE "product_detail:" \o ToString(instance_id)

list_keys_key(cache_base_key) == cache_base_key \o "_list_keys"

FeaturedKey == "product_featured"
DiscountedKey == "product_discounted"

----------------------------------------------------------------------------
(* Serializers and querysets *)

CategorySerializer(id) == [id |-> id, slug |-> categories[id].slug]

ProductListSerializer(id) ==
    [id |-> id, name |-> products[id].name, price |-> products[id].price,
     category |-> categories[products[id].category].slug]

ProductDetailSerializer(id) ==
    [id |-> id, name |-> products[id].name, price |-> products[id].price,
     discount_price |-> products[id].discount_price,
     is_featured |-> products[id].is_featured,
     category |-> categories[products[id].category].slug]

Max(S) == CHOOSE x \in S : \A y \in S : y <= x
Min(S) == CHOOSE x \in S : \A y \in S : x <= y

\* ids in descending order: ordering = ['-id'], Meta.ordering = ('-created_at',)
RECURSIVE Descending(_)
Descending(S) == IF S = {} THEN <<>> ELSE <<Max(S)>> \o Descending(S \ {Max(S)})

\* ids in ascending order: the Category queryset carries no ordering and the
\* rows come in primary-key order.
RECURSIVE Ascending(_)
Ascending(S) == IF S = {} THEN <<>> ELSE <<Min(S)>> \o Ascending(S \ {Min(S)})

\* filter_queryset of ProductViewSet: DjangoFilterBackend on category__slug,
\* SearchFilter on the name (a term matches the name it equals), OrderingFilter
\* with the default ordering -id ("-id" is the only ordering modelled).
FilterProducts(params) ==
    {id \in DOMAIN products :
        /\ params.category__slug # 0 =>
               categories[products[id].category].slug = params.category__slug
        /\ params.search # 0 => products[id].name = params.search}

\* Rows on a page of a paginated list.
PageSize == 1

\* The page a request asks for: the first one when it names none.
PageNumber(page) == IF page = 0 THEN 1 ELSE page

\* The paginator raises NotFound for a page past the last one; the first page
\* of an empty list is a page.
InvalidPage(items, page) ==
    paginated /\ PageNumber(page) > 1
              /\ (PageNumber(page) - 1) * PageSize >= Len(items)

\* The rows of the page; without pagination the page parameter is not read.
Paginate(items, page) ==
    IF paginated
    THEN LET first == (PageNumber(page) - 1) * PageSize + 1
             end == IF first + PageSize - 1 < Len(items)
                    THEN first + PageSize - 1 ELSE Len(items)
         IN [PageValue(SubSeq(items, first, end)) EXCEPT !.count = Len(items)]
    ELSE ListValue(items)

\* The serialized rows of the filtered queryset of a list request.
ListRows(cache_base_key, params) ==
    IF cache_base_key = "categories"
    THEN LET ids == Ascending(DOMAIN categories)
         IN [i \in DOMAIN ids |-> CategorySerializer(ids[i])]
    ELSE LET ids == Descending(FilterProducts(params))
         IN [i \in DOMAIN ids |-> ProductListSerializer(ids[i])]

\* response.data of ModelViewSet.list; NoValue when the paginator raises.
ListData(cache_base_key, params) ==
    IF InvalidPage(ListRows(cache_base_key, params), params.page)
    THEN NoValue
    ELSE Paginate(ListRows(cache_base_key, params), params.page)

Table(cache_base_key) ==
    IF cache_base_key = "categories" THEN categories ELSE products

\* response.data of ModelViewSet.retrieve for an existing row.
DetailData(cache_base_key, id) ==
    IF cache_base_key = "categories"
    THEN Dict(CategorySerializer(id))
    ELSE Dict(ProductDetailSerializer(id))

IsFeatured(id) == products[id].is_featured

IsDiscounted(id) ==
    /\ products[id].discount_price # Null
    /\ products[id].discount_price[1] < products[id].price

\* serializer.data of the featured and discounted actions (many=True, no
\* pagination).
FeaturedData ==
    LET ids == Descending({id \in DOMAIN products : IsFeatured(id)})
    IN ListValue([i \in DOMAIN ids |-> ProductDetailSerializer(ids[i])])

DiscountedData ==
    LET ids == Descending({id \in DOMAIN products : IsDiscounted(id)})
    IN ListValue([i \in DOMAIN ids |-> ProductDetailSerializer(ids[i])])

----------------------------------------------------------------------------
(* Requests *)

\* What a handled request returned and did: the response (status, data), whether
\* it was answered from the cache, how many times it ran the underlying query,
\* and the keys it passed to cache.get, cache.set and cache.delete.
Request(op, c, id, params, status, hit, queries, data, gets, sets, dels, after) ==
    [op |-> op, collection |-> c, id |-> id, params |-> params,
     status |-> status, hit |-> hit, queries |-> queries, data |-> data,
     gets |-> gets, sets |-> sets, dels |-> dels, after |-> after]

NoRequest ==
    Request("none", "categories", 0, EmptyParams, 0, FALSE, 0, NoValue,
            {}, {}, {}, FALSE)

\* A read that missed and wrote its result into the cache.
Populating(r) == r.op \in {"list", "retrieve", "featured", "discounted"} /\ r.sets # {}

Respond(r) ==
    /\ requests < MaxRequests
    /\ requests' = requests + 1
    /\ last' = r
    /\ prev' = IF Populating(last) THEN last ELSE NoRequest
    /\ UNCHANGED workers

----------------------------------------------------------------------------
(* CachingMixin.list *)

\* The cache after a populating miss of list: the list key is set, then the
\* key is appended to the registry unless it is there.
ListPopulate(ch, c, cache_key, data) ==
    LET c1 == CacheSet(ch, cache_key, data)
        cache_keys == CacheGet(c1, list_keys_key(c), KeysValue(<<>>))
    IN IF cache_key \notin Range(cache_keys.keys)
       THEN CacheSet(c1, list_keys_key(c),
                     KeysValue(Append(cache_keys.keys, cache_key)))
       ELSE c1

ListPopulateSets(ch, c, cache_key) ==
    LET cache_keys == CacheGet(ch, list_keys_key(c), KeysValue(<<>>))
    IN IF cache_key \notin Range(cache_keys.keys)
       THEN {cache_key, list_keys_key(c)}
       ELSE {cache_key}

List(c, params) ==
    LET cache_key == get_cache_key_list(c, params)
        cached_data == CacheGet(cache, cache_key, NoValue)
        data == ListData(c, params)
    IN /\ IF cache_key = None
          THEN \* bypass: straight to the database
               /\ Respond(Request("list", c, 0, params,
                                  IF data = NoValue THEN 404 ELSE 200,
                                  FALSE, 1, data, {}, {}, {}, FALSE))
               /\ UNCHANGED <<cache, swept>>
          ELSE IF Truthy(cached_data)
          THEN \* hit
               /\ Respond(Request("list", c, 0, params, 200, TRUE, 0,
                                  cached_data, {cache_key}, {}, {}, c \in swept))
               /\ cache' = cache
               /\ swept' = swept \ {c}
          ELSE IF data = NoValue
          THEN \* miss: NotFound leaves super().list, nothing is cached
               /\ Respond(Request("list", c, 0, params, 404, FALSE, 1, data,
                                  {cache_key}, {}, {}, c \in swept))
               /\ UNCHANGED <<cache, swept>>
          ELSE \* miss: query, set, register
               /\ Respond(Request("list", c, 0, params, 200, FALSE, 1, data,
                                  {cache_key, list_keys_key(c)},
                                  ListPopulateSets(cache, c, cache_key), {},
                                  c \in swept))
               /\ cache' = ListPopulate(cache, c, cache_key, data)
               /\ swept' = swept \ {c}
       /\ UNCHANGED <<store, paginated, updated>>

----------------------------------------------------------------------------
(* CachingMixin.retrieve *)

\* retrieve writing under the key of get_cache_key_detail
RetrievePopulate_MixinKey(ch, c, instance_id, data) ==
    CacheSet(ch, get_cache_key_detail(c, instance_id), data)

\* The cache after a populating miss of retrieve.
RetrievePopulate(ch, c, instance_id, data) ==
    CacheSet(ch, retrieve_cache_key(c, instance_id), data)

Retrieve(c, instance_id) ==
    LET cache_key == retrieve_cache_key(c, instance_id)
        cached_data == CacheGet(cache, cache_key, NoValue)
    IN /\ IF Truthy(cached_data)
          THEN /\ Respond(Request("retrieve", c, instance_id, EmptyParams, 200,
                                  TRUE, 0, cached_data, {cache_key}, {}, {},
                                  <<c, instance_id>> \in updated))
               /\ cache' = cache
          ELSE IF instance_id \notin DOMAIN Table(c)
          THEN \* get_object raises Http404 before anything is cached
               /\ Respond(Request("retrieve", c, instance_id, EmptyParams, 404,
                                  FALSE, 1, NoValue, {cache_key}, {}, {},
                                  <<c, instance_id>> \in updated))
               /\ cache' = cache
          ELSE /\ Respond(Request("retrieve", c, instance_id, EmptyParams, 200,
                                  FALSE, 1, DetailData(c, instance_id),
                                  {cache_key}, {cache_key}, {},
                                  <<c, instance_id>> \in updated))
               /\ cache' = RetrievePopulate(cache, c, instance_id,
                                            DetailData(c, instance_id))
       /\ updated' = updated \ {<<c, instance_id>>}
       /\ UNCHANGED <<store, paginated, swept>>

----------------------------------------------------------------------------
(* ProductViewSet.featured and ProductViewSet.discounted *)

DerivedView(op, cache_key, data) ==
    LET cached_data == CacheGet(cache, cache_key, NoValue)
    IN /\ IF Truthy(cached_data)
          THEN /\ Respond(Request(op, "products", 0, EmptyParams, 200, TRUE, 0,
                                  cached_data, {cache_key}, {}, {}, FALSE))
               /\ cache' = cache
          ELSE /\ Respond(Request(op, "products", 0, EmptyParams, 200, FALSE, 1,
                                  data, {cache_key}, {cache_key}, {}, FALSE))
               /\ cache' = CacheSet(cache, cache_key, data)
       /\ UNCHANGED <<store, paginated, swept, updated>>

Featured == DerivedView("featured", FeaturedKey, FeaturedData)

Discounted == DerivedView("discounted", DiscountedKey, DiscountedData)

----------------------------------------------------------------------------
(* Invalidation *)

\* instance_id of _invalidate_related_caches when the caller passes none.
NoId == 0

\* the derived views' invalidation forgetting product_discounted
DeleteDerivedViews_FeaturedOnly(ch) == CacheDelete(ch, FeaturedKey)

\* cache.delete("product_featured"); cache.delete("product_discounted")
DeleteDerivedViews(ch) == CacheDelete(CacheDelete(ch, FeaturedKey), DiscountedKey)

\* _invalidate_related_caches deleting the registry without the keys it lists
MixinInvalidate_RegistryOnly(c, instance_id, ch) ==
    LET c1 == IF instance_id # NoId
              THEN CacheDelete(ch, get_cache_key_detail(c, instance_id))
              ELSE ch
        c3 == CacheDelete(c1, list_keys_key(c))
    IN IF c = "products" THEN DeleteDerivedViews(c3) ELSE c3

\* the registry read without a default: an absent registry reads as None
RegistryDefault_None == NoValue

\* The default of the invalidation's registry read: set().
RegistryDefault == KeysValue(<<>>)

\* Whether `for key in v` runs; iterating None raises TypeError.
Iterable(v) == v.t # "none"

\* list_cache_keys of _invalidate_related_caches.
RegistryRead(c, ch) == CacheGet(ch, list_keys_key(c), RegistryDefault)

\* The keys the sweep's loop visits.
RegisteredKeys(c, ch) ==
    IF RegistryRead(c, ch).t = "keys" THEN RegistryRead(c, ch).keys ELSE <<>>

\* Whether _invalidate_related_caches raises (no cache call fails).
InvalidateRaises(c, instance_id, ch) == ~Iterable(RegistryRead(c, ch))

\* _invalidate_related_caches clearing the whole cache
MixinInvalidate_ClearAll(c, instance_id, ch) == <<>>

\* _invalidate_related_caches deleting the listed keys and leaving the registry
MixinInvalidate_KeepRegistry(c, instance_id, ch) ==
    LET c1 == IF instance_id # NoId
              THEN CacheDelete(ch, get_cache_key_detail(c, instance_id))
              ELSE ch
        c2 == CacheDeleteAll(c1, RegisteredKeys(c, c1))
    IN IF c = "products" THEN DeleteDerivedViews(c2) ELSE c2

\* CachingMixin._invalidate_related_caches; when the loop raises, the calls
\* after it are not made.
MixinInvalidate(c, instance_id, ch) ==
    LET c1 == IF instance_id # NoId
              THEN CacheDelete(CacheDelete(ch, c \o "_detail:" \o ToString(instance_id)),
                               get_cache_key_detail(c, instance_id))
              ELSE ch
        c2 == CacheDeleteAll(c1, RegisteredKeys(c, c1))
        c3 == CacheDelete(c2, list_keys_key(c))
    IN IF InvalidateRaises(c, instance_id, c1) THEN c1
       ELSE IF c = "products" THEN DeleteDerivedViews(c3) ELSE c3

\* ProductViewSet._invalidate_related_caches
ProductInvalidate(instance_id, ch) ==
    DeleteDerivedViews(MixinInvalidate("products", instance_id, ch))

\* self._invalidate_related_caches of the viewset of collection c.
invalidate_related_caches(c, instance_id, ch) ==
    IF c = "products"
    THEN ProductInvalidate(instance_id, ch)
    ELSE MixinInvalidate(c, instance_id, ch)

\* The keys an invalidation passes to cache.delete.
InvalidateDeletes(c, instance_id, ch) ==
    (IF instance_id # NoId
     THEN {c \o "_detail:" \o ToString(instance_id),
           get_cache_key_detail(c, instance_id)}
     ELSE {})
    \cup Range(RegisteredKeys(c, ch))
    \cup {list_keys_key(c)}
    \cup (IF c = "products" THEN {FeaturedKey, DiscountedKey} ELSE {})

\* A mutation of collection c that went through: its invalidation, as the
\* request's record and the cache it leaves.
Invalidated(op, c, instance_id, response_id, status, data) ==
    /\ Respond(Request(op, c, response_id, EmptyParams, status, FALSE, 0, data,
                       {list_keys_key(c)}, {},
                       InvalidateDeletes(c, instance_id, cache), FALSE))
    /\ cache' = invalidate_related_caches(c, instance_id, cache)
    /\ swept' = IF get_cache_key_list(c, EmptyParams) \in DOMAIN cache
                THEN swept \cup {c} ELSE swept
    /\ LET marked == IF /\ op = "update"
                        /\ retrieve_cache_key(c, instance_id) \in DOMAIN cache
                        /\ \/ c = "categories" /\ categories'[instance_id] # categories[instance_id]
                           \/ c = "products" /\ products'[instance_id] # products[instance_id]
                     THEN updated \cup {<<c, instance_id>>}
                     ELSE updated
       IN updated' = {u \in marked : \/ u[1] = "categories" /\ u[2] \in DOMAIN categories'
                                     \/ u[1] = "products" /\ u[2] \in DOMAIN products'}

\* A mutation request that was refused or failed: nothing but the response.
Refused(op, c, id, status) ==
    /\ Respond(Request(op, c, id, EmptyParams, status, FALSE, 0, NoValue,
                       {}, {}, {}, FALSE))
    /\ UNCHANGED <<store, cache, swept, updated>>

----------------------------------------------------------------------------
(* Models *)

\* truthiness of a nullable Decimal
DecimalTruthy(x) == x # Null /\ x[1] # 0

\* Product.clean: TRUE when it raises ValidationError
ProductCleanRaises(row) ==
    \/ row.price < 0
    \/ DecimalTruthy(row.discount_price) /\ row.discount_price[1] >= row.price

SlugTaken(slug, except) ==
    \E id \in DOMAIN categories \ {except} : categories[id].slug = slug

CategoryBySlug(slug) ==
    CHOOSE id \in DOMAIN categories : categories[id].slug = slug

ProductsOf(category_id) ==
    {id \in DOMAIN products : products[id].category = category_id}

\* perform_destroy without its check
HasRelatedOrderItems_Never(c, id) == FALSE

\* perform_destroy's check: the instance has an orderitem_set and it is not
\* empty.
HasRelatedOrderItems(c, id) == c = "products" /\ id \in orderitems

\* Category.delete's check: a product of the category has order items.
ProductsWithOrderItems(category_id) == ProductsOf(category_id) \cap orderitems

Without(table, ids) == [id \in DOMAIN table \ ids |-> table[id]]

With(table, id, row) ==
    [i \in DOMAIN table \cup {id} |-> IF i = id THEN row ELSE table[i]]

\* What a product request carries: category is the slug of a category.
ProductPayloads ==
    [name : Names, price : Prices, discount_price : Discounts,
     is_featured : BOOLEAN, category : Slugs]

ProductRow(payload) ==
    [name |-> payload.name, price |-> payload.price,
     discount_price |-> payload.discount_price,
     is_featured |-> payload.is_featured,
     category |-> CategoryBySlug(payload.category)]

\* The status the framework's exception handler answers an exception with.
StatusOf(exc) ==
    CASE exc = "ValidationError" -> 400
      [] exc = "Http404" -> 404
      [] OTHER -> 500

\* perform_destroy's except clause raising what it caught
perform_destroy_except_Reraise(exc) == exc

\* perform_destroy's except clause: whatever the check or the delete raised
\* leaves the hook as a ValidationError.
perform_destroy_except(exc) == "ValidationError"

\* The status of a destroy whose check or delete raised exc.
DestroyFailed(exc) == StatusOf(perform_destroy_except(exc))

----------------------------------------------------------------------------
(* Mutation requests of an admin user: create, update, destroy *)

CreateCategory(slug) ==
    /\ nextCategoryId <= MaxCategoryId
    /\ IF SlugTaken(slug, NoId)
       THEN \* the serializer's unique validator answers 400
            Refused("create", "categories", NoId, 400)
       ELSE /\ categories' = With(categories, nextCategoryId, [slug |-> slug])
            /\ nextCategoryId' = nextCategoryId + 1
            /\ UNCHANGED <<products, orderitems, nextProductId>>
            /\ Invalidated("create", "categories", NoId, nextCategoryId, 201, NoValue)
    /\ UNCHANGED paginated

UpdateCategory(id, slug) ==
    /\ IF id \notin DOMAIN categories
       THEN Refused("update", "categories", id, 404)
       ELSE IF SlugTaken(slug, id)
       THEN Refused("update", "categories", id, 400)
       ELSE /\ categories' = With(categories, id, [slug |-> slug])
            /\ UNCHANGED <<products, orderitems, nextCategoryId, nextProductId>>
            /\ Invalidated("update", "categories", id, id, 200, NoValue)
    /\ UNCHANGED paginated

\* perform_destroy on a category: Category has no orderitem_set, so the check
\* is the one of Category.delete, which then deletes the category's products.
DestroyCategory(id) ==
    /\ IF id \notin DOMAIN categories
       THEN Refused("destroy", "categories", id, 404)
       ELSE IF HasRelatedOrderItems("categories", id)
                 \/ ProductsWithOrderItems(id) # {}
       THEN \* Category.delete raises, perform_destroy raises ValidationError
            Refused("destroy", "categories", id, DestroyFailed("Exception"))
       ELSE /\ products' = Without(products, ProductsOf(id))
            /\ categories' = Without(categories, {id})
            /\ UNCHANGED <<orderitems, nextCategoryId, nextProductId>>
            /\ Invalidated("destroy", "categories", id, id, 204, NoValue)
    /\ UNCHANGED paginated

\* A create request gives name, price and category; discount_price and
\* is_featured take the model's defaults.
CreatePayloads ==
    {p \in ProductPayloads : p.discount_price = Null /\ ~p.is_featured}

\* A PATCH of product id: the row's values with one field replaced.
PatchPayloads(id) ==
    IF id \notin DOMAIN products THEN {CHOOSE p \in CreatePayloads : TRUE}
    ELSE LET row == products[id]
             cur == [name |-> row.name, price |-> row.price,
                     discount_price |-> row.discount_price,
                     is_featured |-> row.is_featured,
                     category |-> categories[row.category].slug]
         IN {[cur EXCEPT !.name = v] : v \in Names}
            \cup {[cur EXCEPT !.price = v] : v \in Prices}
            \cup {[cur EXCEPT !.discount_price = v] : v \in Discounts}
            \cup {[cur EXCEPT !.is_featured = v] : v \in BOOLEAN}
            \cup {[cur EXCEPT !.category = v] : v \in Slugs}

CreateProduct(payload) ==
    /\ nextProductId <= MaxProductId
    /\ IF ~SlugTaken(payload.category, NoId)
       THEN \* SlugRelatedField: no category of that slug
            Refused("create", "products", NoId, 400)
       ELSE IF ProductCleanRaises(ProductRow(payload))
       THEN \* Product.save raises django's ValidationError: a 500
            Refused("create", "products", NoId, 500)
       ELSE /\ products' = With(products, nextProductId, ProductRow(payload))
            /\ nextProductId' = nextProductId + 1
            /\ UNCHANGED <<categories, orderitems, nextCategoryId>>
            /\ Invalidated("create", "products", NoId, nextProductId, 201, NoValue)
    /\ UNCHANGED paginated

UpdateProduct(id, payload) ==
    /\ IF id \notin DOMAIN products
       THEN Refused("update", "products", id, 404)
       ELSE IF ~SlugTaken(payload.category, NoId)
       THEN Refused("update", "products", id, 400)
       ELSE IF ProductCleanRaises(ProductRow(payload))
       THEN Refused("update", "products", id, 500)
       ELSE /\ products' = With(products, id, ProductRow(payload))
            /\ UNCHANGED <<categories, orderitems, nextCategoryId, nextProductId>>
            /\ Invalidated("update", "products", id, id, 200, NoValue)
    /\ UNCHANGED paginated

\* perform_destroy on a product: refused when an OrderItem references it,
\* else Product.delete removes its order items and the row.
DestroyProduct(id) ==
    /\ IF id \notin DOMAIN products
       THEN Refused("destroy", "products", id, 404)
       ELSE IF HasRelatedOrderItems("products", id)
       THEN Refused("destroy", "products", id, DestroyFailed("Exception"))
       ELSE /\ orderitems' = orderitems \ {id}
            /\ products' = Without(products, {id})
            /\ UNCHANGED <<categories, nextCategoryId, nextProductId>>
            /\ Invalidated("destroy", "products", id, id, 204, NoValue)
    /\ UNCHANGED paginated

----------------------------------------------------------------------------
(* The environment *)

\* An OrderItem is written for a product (OrderItem.objects.create).
PlaceOrderItem(id) ==
    /\ id \in DOMAIN products
    /\ id \notin orderitems
    /\ orderitems' = orderitems \cup {id}
    /\ UNCHANGED <<categories, products, nextCategoryId, nextProductId,
                   cache, paginated, last, prev, swept, updated, requests>>
    /\ UNCHANGED workers

\* retrieve writing its entry with timeout=None
HasTtl_DetailForever(key) ==
    /\ \A c \in Collections : key # list_keys_key(c)
    /\ \A c \in Collections, id \in CategoryIds \cup ProductIds :
           key # retrieve_cache_key(c, id)

\* An entry written with timeout=CACHE_TTL expires; the registry is written
\* with timeout=None and never does.
HasTtl(key) == \A c \in Collections : key # list_keys_key(c)

Expire(key) ==
    /\ key \in DOMAIN cache
    /\ HasTtl(key)
    /\ cache' = CacheDelete(cache, key)
    /\ Respond(Request("expire", "categories", NoId, EmptyParams, 0, FALSE, 0,
                       NoValue, {}, {}, {}, FALSE))
    /\ UNCHANGED <<store, paginated, swept, updated>>

----------------------------------------------------------------------------
(* The tasks that write products without a request (store/tasks.py): none   *)
(* of them calls the cache.                                                  *)

MaxPriceUpdates == 1

\* An entry of price_updates; a discount_price of Null is an entry without
\* the key.
PriceUpdate ==
    [product_id : ProductIds, new_price : 0..(MaxPrice + 1),
     discount_price : Discounts]

RECURSIVE Lists(_, _)
Lists(S, n) ==
    IF n = 0 THEN {<<>>}
    ELSE Lists(S, n - 1) \cup {Append(l, x) : l \in Lists(S, n - 1), x \in S}

PriceUpdates == Lists(PriceUpdate, MaxPriceUpdates) \ {<<>>}

\* The loop of bulk_update_prices on the product table: an entry whose product
\* is missing or whose save raises is skipped.
RECURSIVE BulkUpdated(_, _)
BulkUpdated(table, price_updates) ==
    IF price_updates = <<>> THEN table
    ELSE LET update == Head(price_updates)
             id == update.product_id
         IN IF id \notin DOMAIN table
            THEN BulkUpdated(table, Tail(price_updates))
            ELSE LET product ==
                         [table[id] EXCEPT
                             !.price = update.new_price,
                             !.discount_price =
                                 IF update.discount_price = Null
                                 THEN @ ELSE update.discount_price]
                 IN IF ProductCleanRaises(product)
                    THEN BulkUpdated(table, Tail(price_updates))
                    ELSE BulkUpdated(With(table, id, product),
                                     Tail(price_updates))

\* What a task leaves as the last thing that happened.
TaskRan(name) ==
    Respond(Request(name, "products", NoId, EmptyParams, 0, FALSE, 0,
                    NoValue, {}, {}, {}, FALSE))

bulk_update_prices(price_updates) ==
    /\ products' = BulkUpdated(products, price_updates)
    /\ TaskRan("bulk_update_prices")
    /\ UNCHANGED <<categories, orderitems, nextCategoryId, nextProductId,
                   cache, paginated, swept, updated>>

\* update_product_popularity: is_featured is reset on every product and set
\* on the products sold in the recent completed orders (ten of them at most,
\* more than the table holds); top_product_ids are the products with order
\* items whose order is completed and recent.
update_product_popularity(top_product_ids) ==
    /\ top_product_ids \subseteq orderitems
    /\ products' = [id \in DOMAIN products |->
                       [products[id] EXCEPT !.is_featured = id \in top_product_ids]]
    /\ TaskRan("update_product_popularity")
    /\ UNCHANGED <<categories, orderitems, nextCategoryId, nextProductId,
                   cache, paginated, swept, updated>>

----------------------------------------------------------------------------
(* Requests in flight: each handler as the sequence of its cache and         *)
(* database calls, several workers at once, cache calls that may raise.      *)
(* A database call (a query, or a write with its validation) is one step.    *)

MaxWorkers == 2
MaxCalls == 2
MaxFailures == 1

Workers == 1..MaxWorkers

Users == {"anonymous", "regular", "admin"}

ReadActions == {"list", "retrieve", "featured", "discounted"}
WriteActions == {"create", "update", "partial_update", "destroy"}

\* get_permissions leaving PATCH to the viewset's permission_classes
AdminActions_NoPartialUpdate == {"create", "update", "destroy"}

\* The actions get_permissions answers with IsAdminUser.
AdminActions == {"create", "update", "destroy", "partial_update"}

get_permissions(action) ==
    IF action \in AdminActions THEN "IsAdminUser" ELSE "IsAuthenticatedOrReadOnly"

\* The HTTP method the router maps to the action.
Method(action) ==
    CASE action = "create" -> "POST"
      [] action = "update" -> "PUT"
      [] action = "partial_update" -> "PATCH"
      [] action = "destroy" -> "DELETE"
      [] OTHER -> "GET"

\* has_permission of the two permission classes the viewsets use.
has_permission(permission, user, action) ==
    IF permission = "IsAdminUser"
    THEN user = "admin"
    ELSE Method(action) = "GET" \/ user # "anonymous"

\* perform_update and partial updates run the same hook.
Op(action) == IF action = "partial_update" THEN "update" ELSE action

\* The locals of a request in flight (cache_key, data, cache_keys, the
\* response) and what it has done so far: whether its database write is made,
\* the statements whose cache call raised, the keys it set and deleted, the
\* workers it overlapped with, the listing its write replaced, the workers
\* whose delete of the list key its own set of that key came after, and
\* whether the list key held a value when its invalidation read the registry.
Call(user, action, c, id, params, body) ==
    [user |-> user, op |-> Op(action), collection |-> c,
     id |-> id, params |-> params, body |-> body, stage |-> 1,
     cache_key |-> None, data |-> NoValue, cache_keys |-> <<>>,
     status |-> 0, response |-> NoValue, hit |-> FALSE, queries |-> 0,
     written |-> FALSE, raised |-> {}, sets |-> {}, dels |-> {},
     overlapped |-> {}, before |-> NoValue, late |-> {}, found |-> FALSE]

NoBody == [none |-> TRUE]

NoCall == Call("admin", "none", "categories", NoId, EmptyParams, NoBody)

InFlight(p) == pc[p] \notin {"idle", "done"}

\* The response leaves the worker; the record of the call stays until the
\* worker takes the next request.
Done(cl, status, response) ==
    [cl EXCEPT !.status = status, !.response = response]

\* A cache call either returns or, while the store is failing, raises.
Raises(ok) ==
    /\ ~ok => failures < MaxFailures
    /\ failures' = IF ok THEN failures ELSE failures + 1

Raised(cl, label) == [cl EXCEPT !.raised = @ \cup {label}]

\* Worker p moves to the statement at label with locals cl.
Goto(p, label, cl) ==
    /\ pc' = [pc EXCEPT ![p] = label]
    /\ call' = [call EXCEPT ![p] = cl]

\* What the steps of a request in flight never touch.
history == <<paginated, last, prev, swept, updated, celery>>

\* the except clause of a populating miss raising again
PopulateFailed_Raises(cl, label) == Done(Raised(cl, label), 500, NoValue)

\* A cache call of the populating part raised: the except clause logs and the
\* handler returns Response(response.data).
PopulateFailed(cl, label) == Done(Raised(cl, label), 200, cl.data)

\* cache.get raised outside any try: the exception leaves the view, a 500.
GetFailed(cl, label) == Done(Raised(cl, label), 500, NoValue)

\* A cache call of _invalidate_related_caches raised: nothing catches it.
InvalidateFailed(cl, label) == Done(Raised(cl, label), 500, NoValue)

\* a mutation hook invalidating before it writes
perform_order_InvalidateFirst == <<"invalidate", "write">>

\* The two statements of perform_create, perform_update and perform_destroy:
\* the write of super(), then self._invalidate_related_caches.
perform_order == <<"write", "invalidate">>

\* _invalidate_related_caches starts with `if instance_id:`.
InvalidateEntry(cl) == IF cl.id # NoId THEN "inv_detail" ELSE "inv_keys_get"

StageEntry(cl, n) ==
    IF perform_order[n] = "write" THEN "write" ELSE InvalidateEntry(cl)

SuccessStatus(op) ==
    CASE op = "create" -> 201 [] op = "update" -> 200 [] op = "destroy" -> 204

\* The statement a permitted request starts at.
Entry(cl) ==
    CASE cl.op = "list" ->
             IF get_cache_key_list(cl.collection, cl.params) = None
             THEN "list_query" ELSE "list_get"
      [] cl.op = "retrieve" -> "retrieve_get"
      [] cl.op \in {"featured", "discounted"} -> "view_get"
      [] OTHER -> StageEntry(cl, 1)

\* The cache key a read request works with.
ReadKey(cl) ==
    CASE cl.op = "list" -> get_cache_key_list(cl.collection, cl.params)
      [] cl.op = "retrieve" -> retrieve_cache_key(cl.collection, cl.id)
      [] cl.op = "featured" -> FeaturedKey
      [] cl.op = "discounted" -> DiscountedKey
      [] OTHER -> None

\* The user a request's record keeps: a read handler never looks at
\* request.user once the permission check has let the request in.
Principal(user, action) == IF action \in ReadActions THEN "any" ELSE user

\* dispatch: the permission check of initial(), then the handler.
Start(p, user, action, c, id, params, body) ==
    /\ ~InFlight(p)
    /\ requests < MaxCalls
    /\ requests' = requests + 1
    /\ LET others == {q \in Workers \ {p} : InFlight(q)}
           new == Call(Principal(user, action), action, c, id, params, body)
           cl == [new EXCEPT !.overlapped = others, !.cache_key = ReadKey(new)]
           permitted == has_permission(get_permissions(action), user, action)
       IN /\ pc' = [pc EXCEPT ![p] = IF permitted THEN Entry(cl) ELSE "done"]
          /\ call' = [q \in Workers |->
                         IF q = p
                         THEN IF permitted THEN cl ELSE Done(cl, 403, NoValue)
                         ELSE IF q \in others
                         THEN [call[q] EXCEPT !.overlapped = @ \cup {p}]
                         ELSE call[q]]
    /\ UNCHANGED <<store, cache, failures, history>>

\* cached_data = cache.get(cache_key); if cached_data: return Response(cached_data)
\* (list, retrieve, featured, discounted)
ReadGet(p, ok) ==
    LET cl == call[p]
        label == pc[p]
        cached_data == CacheGet(cache, cl.cache_key, NoValue)
    IN /\ label \in {"list_get", "retrieve_get", "view_get"}
       /\ Raises(ok)
       /\ IF ~ok
          THEN Goto(p, "done", GetFailed(cl, label))
          ELSE IF Truthy(cached_data)
          THEN Goto(p, "done", [Done(cl, 200, cached_data) EXCEPT !.hit = TRUE])
          ELSE Goto(p, CASE label = "list_get" -> "list_query"
                         [] label = "retrieve_get" -> "retrieve_query"
                         [] label = "view_get" -> "view_query", cl)
       /\ UNCHANGED <<store, cache, requests, history>>

\* response = super().list(request) / super().retrieve(request) / the
\* serializer.data of a derived view: the query on the tables as they are.
ReadQuery(p) ==
    LET cl == call[p]
        label == pc[p]
        ran == [cl EXCEPT !.queries = @ + 1]
    IN /\ label \in {"list_query", "retrieve_query", "view_query"}
       /\ CASE label = "list_query" ->
                  LET got == [ran EXCEPT !.data = ListData(cl.collection, cl.params)]
                  IN IF got.data = NoValue
                     THEN Goto(p, "done", Done(got, 404, NoValue))
                     ELSE IF cl.cache_key = None
                     THEN Goto(p, "done", Done(got, 200, got.data))
                     ELSE Goto(p, "list_set", got)
            [] label = "retrieve_query" ->
                  IF cl.id \notin DOMAIN Table(cl.collection)
                  THEN Goto(p, "done", Done(ran, 404, NoValue))
                  ELSE Goto(p, "retrieve_set",
                            [ran EXCEPT !.data = DetailData(cl.collection, cl.id)])
            [] label = "view_query" ->
                  Goto(p, "view_set",
                       [ran EXCEPT !.data = IF cl.op = "featured"
                                            THEN FeaturedData ELSE DiscountedData])
       /\ UNCHANGED <<store, cache, requests, failures, history>>

\* The workers whose invalidation deleted key before this moment.
DeletedBefore(p, key) ==
    {q \in Workers \ {p} : call[q].op \in {"create", "update", "destroy"}
                           /\ key \in call[q].dels}

\* try: cache.set(cache_key, response.data, timeout=CACHE_TTL)
ReadSet(p, ok) ==
    LET cl == call[p]
        label == pc[p]
        set == [cl EXCEPT !.sets = @ \cup {cl.cache_key},
                          !.late = DeletedBefore(p, cl.cache_key)]
    IN /\ label \in {"list_set", "retrieve_set", "view_set"}
       /\ Raises(ok)
       /\ IF ~ok
          THEN /\ Goto(p, "done", PopulateFailed(cl, label))
               /\ cache' = cache
          ELSE /\ cache' = CacheSet(cache, cl.cache_key, cl.data)
               /\ IF label = "list_set"
                  THEN Goto(p, "list_keys_get", set)
                  ELSE Goto(p, "done", Done(set, 200, cl.data))
       /\ UNCHANGED <<store, requests, history>>

\* the registry read followed by the append whether the key is listed or not
ListKeysGet_NoMembershipTest(p, ok) ==
    LET cl == call[p]
        cache_keys == CacheGet(cache, list_keys_key(cl.collection), KeysValue(<<>>))
    IN /\ pc[p] = "list_keys_get"
       /\ Raises(ok)
       /\ IF ~ok
          THEN Goto(p, "done", PopulateFailed(cl, "list_keys_get"))
          ELSE Goto(p, "list_keys_set", [cl EXCEPT !.cache_keys = cache_keys.keys])
       /\ UNCHANGED <<store, cache, requests, history>>

\* cache_keys = cache.get(f"{self.cache_base_key}_list_keys", [])
ListKeysGet(p, ok) ==
    LET cl == call[p]
        cache_keys == CacheGet(cache, list_keys_key(cl.collection), KeysValue(<<>>))
    IN /\ pc[p] = "list_keys_get"
       /\ Raises(ok)
       /\ IF ~ok
          THEN Goto(p, "done", PopulateFailed(cl, "list_keys_get"))
          ELSE IF cl.cache_key \in Range(cache_keys.keys)
          THEN Goto(p, "done", Done(cl, 200, cl.data))
          ELSE Goto(p, "list_keys_set", [cl EXCEPT !.cache_keys = cache_keys.keys])
       /\ UNCHANGED <<store, cache, requests, history>>

\* the registry write appending to the registry as it is stored by then
ListKeysSet_AppendToStored(p, ok) ==
    LET cl == call[p]
        key == list_keys_key(cl.collection)
        stored == CacheGet(cache, key, KeysValue(<<>>))
    IN /\ pc[p] = "list_keys_set"
       /\ Raises(ok)
       /\ IF ~ok
          THEN /\ Goto(p, "done", PopulateFailed(cl, "list_keys_set"))
               /\ cache' = cache
          ELSE /\ cache' = CacheSet(cache, key,
                                    KeysValue(Append(stored.keys, cl.cache_key)))
               /\ Goto(p, "done",
                       Done([cl EXCEPT !.sets = @ \cup {key}], 200, cl.data))
       /\ UNCHANGED <<store, requests, history>>

\* cache_keys.append(cache_key); cache.set(..._list_keys, cache_keys, timeout=None)
ListKeysSet(p, ok) ==
    LET cl == call[p]
        key == list_keys_key(cl.collection)
    IN /\ pc[p] = "list_keys_set"
       /\ Raises(ok)
       /\ IF ~ok
          THEN /\ Goto(p, "done", PopulateFailed(cl, "list_keys_set"))
               /\ cache' = cache
          ELSE /\ cache' = CacheSet(cache, key,
                                    KeysValue(Append(cl.cache_keys, cl.cache_key)))
               /\ Goto(p, "done",
                       Done([cl EXCEPT !.sets = @ \cup {key}], 200, cl.data))
       /\ UNCHANGED <<store, requests, history>>

\* A statement of the hook returned: on to the next one, or the response.
AfterStage(p, cl) ==
    IF cl.stage < Len(perform_order)
    THEN Goto(p, StageEntry(cl, cl.stage + 1), [cl EXCEPT !.stage = @ + 1])
    ELSE Goto(p, "done", Done(cl, SuccessStatus(cl.op), NoValue))

\* The request ends without a write: not found, invalid, or refused.
Refuse(p, status) ==
    /\ Goto(p, "done", Done(call[p], status, NoValue))
    /\ UNCHANGED store

\* get_object, the serializer's validation and the write of super(), in one
\* database step.
Write(p) ==
    LET cl == call[p]
        c == cl.collection
        id == cl.id
        wrote == [cl EXCEPT !.written = TRUE,
                            !.before = ListData(c, EmptyParams)]
    IN /\ pc[p] = "write"
       /\ CASE cl.op = "create" /\ c = "categories" ->
                 IF SlugTaken(cl.body.slug, NoId)
                 THEN Refuse(p, 400)
                 ELSE /\ categories' = With(categories, nextCategoryId,
                                            [slug |-> cl.body.slug])
                      /\ nextCategoryId' = nextCategoryId + 1
                      /\ UNCHANGED <<products, orderitems, nextProductId>>
                      /\ AfterStage(p, wrote)
            [] cl.op = "update" /\ c = "categories" ->
                 IF id \notin DOMAIN categories THEN Refuse(p, 404)
                 ELSE IF SlugTaken(cl.body.slug, id) THEN Refuse(p, 400)
                 ELSE /\ categories' = With(categories, id, [slug |-> cl.body.slug])
                      /\ UNCHANGED <<products, orderitems, nextCategoryId,
                                     nextProductId>>
                      /\ AfterStage(p, wrote)
            [] cl.op = "destroy" /\ c = "categories" ->
                 IF id \notin DOMAIN categories THEN Refuse(p, 404)
                 ELSE IF HasRelatedOrderItems(c, id) \/ ProductsWithOrderItems(id) # {}
                 THEN Refuse(p, DestroyFailed("Exception"))
                 ELSE /\ products' = Without(products, ProductsOf(id))
                      /\ categories' = Without(categories, {id})
                      /\ UNCHANGED <<orderitems, nextCategoryId, nextProductId>>
                      /\ AfterStage(p, wrote)
            [] cl.op = "create" /\ c = "products" ->
                 IF ~SlugTaken(cl.body.category, NoId) THEN Refuse(p, 400)
                 ELSE IF ProductCleanRaises(ProductRow(cl.body)) THEN Refuse(p, 500)
                 ELSE /\ products' = With(products, nextProductId, ProductRow(cl.body))
                      /\ nextProductId' = nextProductId + 1
                      /\ UNCHANGED <<categories, orderitems, nextCategoryId>>
                      /\ AfterStage(p, wrote)
            [] cl.op = "update" /\ c = "products" ->
                 IF id \notin DOMAIN products THEN Refuse(p, 404)
                 ELSE IF ~SlugTaken(cl.body.category, NoId) THEN Refuse(p, 400)
                 ELSE IF ProductCleanRaises(ProductRow(cl.body)) THEN Refuse(p, 500)
                 ELSE /\ products' = With(products, id, ProductRow(cl.body))
                      /\ UNCHANGED <<categories, orderitems, nextCategoryId,
                                     nextProductId>>
                      /\ AfterStage(p, wrote)
            [] cl.op = "destroy" /\ c = "products" ->
                 IF id \notin DOMAIN products THEN Refuse(p, 404)
                 ELSE IF HasRelatedOrderItems(c, id)
                 THEN Refuse(p, DestroyFailed("Exception"))
                 ELSE /\ orderitems' = orderitems \ {id}
                      /\ products' = Without(products, {id})
                      /\ UNCHANGED <<categories, nextCategoryId, nextProductId>>
                      /\ AfterStage(p, wrote)
       /\ UNCHANGED <<cache, requests, failures, history>>

\* list_cache_keys = cache.get(f"{self.cache_base_key}_list_keys", set())
InvKeysGet(p, ok) ==
    LET read == call[p]
        c == read.collection
        cl == [read EXCEPT !.found = get_cache_key_list(c, EmptyParams) \in DOMAIN cache]
    IN /\ pc[p] = "inv_keys_get"
       /\ Raises(ok)
       /\ IF ~ok \/ InvalidateRaises(c, cl.id, cache)
          THEN Goto(p, "done", InvalidateFailed(read, "inv_keys_get"))
          ELSE IF RegisteredKeys(c, cache) = <<>>
          THEN Goto(p, "inv_keys_delete", cl)
          ELSE Goto(p, "inv_sweep", [cl EXCEPT !.cache_keys = RegisteredKeys(c, cache)])
       /\ UNCHANGED <<store, cache, requests, history>>

InvDeleteLabels ==
    {"inv_detail", "inv_detail_again", "inv_sweep", "inv_keys_delete",
     "inv_featured", "inv_discounted", "inv_featured_again",
     "inv_discounted_again"}

\* The key of the cache.delete at a statement of the invalidation.
InvKey(cl, label) ==
    CASE label = "inv_detail" -> cl.collection \o "_detail:" \o ToString(cl.id)
      [] label = "inv_detail_again" -> get_cache_key_detail(cl.collection, cl.id)
      [] label = "inv_sweep" -> Head(cl.cache_keys)
      [] label = "inv_keys_delete" -> list_keys_key(cl.collection)
      [] label \in {"inv_featured", "inv_featured_again"} -> FeaturedKey
      [] label \in {"inv_discounted", "inv_discounted_again"} -> DiscountedKey

\* The statement after a cache.delete that returned; "return" is the end of
\* _invalidate_related_caches.
InvAfter(cl, label) ==
    CASE label = "inv_detail" -> "inv_detail_again"
      [] label = "inv_detail_again" -> "inv_keys_get"
      [] label = "inv_sweep" ->
             IF Tail(cl.cache_keys) = <<>> THEN "inv_keys_delete" ELSE "inv_sweep"
      [] label = "inv_keys_delete" ->
             IF cl.collection = "products" THEN "inv_featured" ELSE "return"
      [] label = "inv_featured" -> "inv_discounted"
      [] label = "inv_discounted" -> "inv_featured_again"
      [] label = "inv_featured_again" -> "inv_discounted_again"
      [] label = "inv_discounted_again" -> "return"

\* One cache.delete of _invalidate_related_caches.
InvDelete(p, ok) ==
    LET cl == call[p]
        label == pc[p]
        key == InvKey(cl, label)
        deleted == [cl EXCEPT !.dels = @ \cup {key},
                              !.cache_keys = IF label = "inv_sweep"
                                             THEN Tail(@) ELSE @]
    IN /\ label \in InvDeleteLabels
       /\ Raises(ok)
       /\ IF ~ok
          THEN /\ Goto(p, "done", InvalidateFailed(cl, label))
               /\ cache' = cache
          ELSE /\ cache' = CacheDelete(cache, key)
               /\ IF InvAfter(cl, label) = "return"
                  THEN AfterStage(p, deleted)
                  ELSE Goto(p, InvAfter(cl, label), deleted)
       /\ UNCHANGED <<store, requests, history>>

----------------------------------------------------------------------------
(* The celery tasks that process an order (store/tasks.py).  A task message  *)
(* waits in the broker until a worker takes it; an execution is the sequence *)
(* of its database calls, its mails and its calls of .delay, and any of the  *)
(* mails and .delay calls may raise.                                         *)

MaxTaskProducts == 2
MaxOrders == 1
MaxQuantity == 2
MaxStock == 7
MaxSubmits == 1
MaxTaskWorkers == 2
MaxTaskFailures == 4

\* @shared_task(bind=True, max_retries=3)
max_retries == 3

\* if product.stock <= 5: products_to_alert.append(...)
LowStockThreshold == 5

TaskProducts == 1..MaxTaskProducts
OrderIds == 1..MaxOrders
Quantities == 1..MaxQuantity
TaskWorkers == 1..MaxTaskWorkers

\* An order id that no row has.
MissingOrder == MaxOrders + 1

\* The stock a product starts with: short, or above the alert threshold.
StockLevels == {1, MaxStock}

\* The items of an order: one or two lines, the first of them for product 1.
OrderLines == [product : TaskProducts, quantity : Quantities]
OrderShapes ==
    {<<a>> : a \in {l \in OrderLines : l.product = 1}}
    \cup {<<a, b>> : a \in {l \in OrderLines : l.product = 1}, b \in OrderLines}

RetriedTasks == {"process_order_async", "send_order_confirmation_email"}
TaskNames == RetriedTasks \cup {"send_low_stock_alert"}

\* A task message: the task, its arguments and request.retries.
Message(name, args, retries) == [name |-> name, args |-> args, retries |-> retries]

\* The locals of a task execution and what it has done so far: the items and
\* the Product objects the prefetch loaded, the index of the loop, the state
\* celery records for the execution, the exception that ended it, the
\* products it saved and the messages it sent with .delay or self.retry.
Execution(msg, label) ==
    [name |-> msg.name, args |-> msg.args, retries |-> msg.retries, pc |-> label,
     state |-> "STARTED", exc |-> "", items |-> <<>>, product |-> <<>>,
     insufficient_stock |-> {}, i |-> 1, products_to_alert |-> <<>>,
     status |-> "", saved |-> {}, sent |-> {}]

NoExecution ==
    [Execution(Message("none", <<>>, 0), "idle") EXCEPT !.state = "PENDING"]

Executing(w) == running[w].pc \notin {"idle", "done"}

\* The first statement of a task.
TaskEntry(name) ==
    CASE name = "process_order_async" -> "get"
      [] name = "send_order_confirmation_email" -> "email"
      [] name = "send_low_stock_alert" -> "alert"

\* What no step of a task touches.
catalog == <<categories, products, orderitems, nextCategoryId, nextProductId,
             cache, paginated, last, prev, swept, updated, requests, pc, call>>

\* A call of the broker (.delay) or of the mail server (send_mail) either
\* returns or raises.
Faults(ok) ==
    /\ ~ok => failures < MaxTaskFailures
    /\ failures' = IF ok THEN failures ELSE failures + 1

\* The locals of an execution are gone when it ends.
Ended(e) ==
    [e EXCEPT !.pc = "done", !.items = <<>>, !.product = <<>>, !.i = 1,
              !.products_to_alert = <<>>]

\* The application calls process_order_async.delay(order_id) or
\* send_order_confirmation_email.delay(order_id).
Submit(name, order_id) ==
    /\ submitted < MaxSubmits
    /\ submitted' = submitted + 1
    /\ queue' = queue \cup {Message(name, <<order_id>>, 0)}
    /\ UNCHANGED <<stock, orders, running, failures, catalog>>

\* A message goes to the first free worker.
TaskStart(w, msg) ==
    /\ ~Executing(w)
    /\ \A v \in TaskWorkers : v < w => Executing(v)
    /\ msg \in queue
    /\ queue' = queue \ {msg}
    /\ running' = [running EXCEPT ![w] = Execution(msg, TaskEntry(msg.name))]
    /\ UNCHANGED <<stock, orders, submitted, failures, catalog>>

Succeed(e) == [Ended(e) EXCEPT !.state = "SUCCESS"]

Fail(e, exc) == [Ended(e) EXCEPT !.state = "FAILURE", !.exc = exc]

\* the except clauses in the other order: every exception goes to self.retry
Retryable_All(exc) == TRUE

\* except Order.DoesNotExist: raise / except Exception as exc: raise self.retry(...)
Retryable(exc) == exc # "DoesNotExist"

\* The execution of worker w raised exc: raised again as it is, or handed to
\* self.retry, which sends the message again with retries + 1 unless
\* max_retries are used up, and then raises exc.
TaskRaise(w, exc) ==
    LET e == running[w]
        again == Message(e.name, e.args, e.retries + 1)
    IN IF Retryable(exc) /\ e.retries < max_retries
       THEN /\ queue' = queue \cup {again}
            /\ running' = [running EXCEPT ![w] =
                              [Ended(e) EXCEPT !.state = "RETRY", !.exc = exc,
                                               !.sent = @ \cup {again}]]
       ELSE /\ queue' = queue
            /\ running' = [running EXCEPT ![w] = Fail(e, exc)]

\* the stock check looking at the first item only
insufficient_stock_FirstItem(items, product) ==
    {i \in DOMAIN items \cap {1} : product[items[i].product] < items[i].quantity}

\* insufficient_stock of process_order_async: the items that ask for more
\* than the stock of their product.
insufficient_stock(items, product) ==
    {i \in DOMAIN items : product[items[i].product] < items[i].quantity}

\* order = Order.objects...prefetch_related("items__product").get(id=order_id)
\* and the loop of step 1, which reads the prefetched objects only.
ProcessGet(w) ==
    LET e == running[w]
        order_id == e.args[1]
    IN /\ e.pc = "get"
       /\ IF order_id \notin DOMAIN orders
          THEN TaskRaise(w, "DoesNotExist")
          ELSE LET items == orders[order_id].items
                   product == [p \in {items[i].product : i \in DOMAIN items} |->
                                  stock[p]]
                   insufficient == insufficient_stock(items, product)
               IN /\ running' = [running EXCEPT ![w] =
                         [e EXCEPT !.items = items, !.product = product,
                                   !.insufficient_stock = insufficient,
                                   !.pc = IF insufficient # {}
                                          THEN "cancel" ELSE "reduce"]]
                  /\ queue' = queue
       /\ UNCHANGED <<stock, orders, submitted, failures, catalog>>

\* if insufficient_stock: order.status = "cancelled"; order.save(); return
ProcessCancel(w) ==
    LET e == running[w]
    IN /\ e.pc = "cancel"
       /\ orders' = [orders EXCEPT ![e.args[1]].status = "cancelled"]
       /\ running' = [running EXCEPT ![w] = Succeed([e EXCEPT !.status = "cancelled"])]
       /\ UNCHANGED <<stock, queue, submitted, failures, catalog>>

\* One turn of the loop of step 2: product.stock -= item.quantity;
\* product.save(), which the database refuses for a negative stock
\* (PositiveIntegerField); then the threshold test.
ProcessReduce(w) ==
    LET e == running[w]
        item == e.items[e.i]
        p == item.product
        left == e.product[p] - item.quantity
    IN /\ e.pc = "reduce"
       /\ IF left < 0
          THEN /\ TaskRaise(w, "IntegrityError")
               /\ stock' = stock
               /\ orders' = orders
          ELSE /\ stock' = [stock EXCEPT ![p] = left]
               /\ orders' = [orders EXCEPT ![e.args[1]].deducted[p] =
                                                @ + item.quantity]
               /\ running' = [running EXCEPT ![w] =
                      [e EXCEPT !.product[p] = left,
                                !.saved = @ \cup {p},
                                !.products_to_alert =
                                    IF left <= LowStockThreshold
                                    THEN Append(@, <<p, left>>) ELSE @,
                                !.i = @ + 1,
                                !.pc = IF e.i = Len(e.items)
                                       THEN "complete" ELSE "reduce"]]
               /\ queue' = queue
       /\ UNCHANGED <<submitted, failures, catalog>>

\* order.status = "completed"; order.save()
ProcessComplete(w) ==
    LET e == running[w]
    IN /\ e.pc = "complete"
       /\ orders' = [orders EXCEPT ![e.args[1]].status = "completed"]
       /\ running' = [running EXCEPT ![w] =
              [e EXCEPT !.status = "completed", !.pc = "notify_email"]]
       /\ UNCHANGED <<stock, queue, submitted, failures, catalog>>

\* send_order_confirmation_email.delay(order_id)
ProcessNotifyEmail(w, ok) ==
    LET e == running[w]
        msg == Message("send_order_confirmation_email", e.args, 0)
        sent == [e EXCEPT !.sent = @ \cup {msg}]
    IN /\ e.pc = "notify_email"
       /\ Faults(ok)
       /\ IF ~ok
          THEN TaskRaise(w, "OperationalError")
          ELSE /\ queue' = queue \cup {msg}
               /\ running' = [running EXCEPT ![w] =
                      IF e.products_to_alert = <<>>
                      THEN Succeed(sent)
                      ELSE [sent EXCEPT !.pc = "notify_alert"]]
       /\ UNCHANGED <<stock, orders, submitted, catalog>>

\* One turn of: for product_id, stock in products_to_alert:
\*     send_low_stock_alert.delay(product_id, stock)
ProcessNotifyAlert(w, ok) ==
    LET e == running[w]
        msg == Message("send_low_stock_alert", Head(e.products_to_alert), 0)
        sent == [e EXCEPT !.sent = @ \cup {msg}, !.products_to_alert = Tail(@)]
    IN /\ e.pc = "notify_alert"
       /\ Faults(ok)
       /\ IF ~ok
          THEN TaskRaise(w, "OperationalError")
          ELSE /\ queue' = queue \cup {msg}
               /\ running' = [running EXCEPT ![w] =
                      IF sent.products_to_alert = <<>> THEN Succeed(sent) ELSE sent]
       /\ UNCHANGED <<stock, orders, submitted, catalog>>

\* send_order_confirmation_email: the order is read, the mail is sent.
EmailRun(w, ok) ==
    LET e == running[w]
    IN /\ e.pc = "email"
       /\ e.args[1] \notin DOMAIN orders => ok
       /\ Faults(ok)
       /\ IF e.args[1] \notin DOMAIN orders
          THEN TaskRaise(w, "DoesNotExist")
          ELSE IF ~ok
          THEN TaskRaise(w, "SMTPException")
          ELSE /\ running' = [running EXCEPT ![w] = Succeed(e)]
               /\ queue' = queue
       /\ UNCHANGED <<stock, orders, submitted, catalog>>

\* send_low_stock_alert: no retry, an exception of send_mail ends the task.
AlertRun(w, ok) ==
    LET e == running[w]
    IN /\ e.pc = "alert"
       /\ Faults(ok)
       /\ running' = [running EXCEPT ![w] =
              IF e.args[1] \notin DOMAIN stock THEN Fail(e, "DoesNotExist")
              ELSE IF ~ok THEN Fail(e, "SMTPException")
              ELSE Succeed(e)]
       /\ UNCHANGED <<stock, orders, queue, submitted, catalog>>

\* The quantity an order asks of a product, over all its items.
RECURSIVE Ordered(_, _)
Ordered(items, p) ==
    IF items = <<>> THEN 0
    ELSE (IF Head(items).product = p THEN Head(items).quantity ELSE 0)
         + Ordered(Tail(items), p)

\* What the loops of cleanup_expired_orders add to the stock of product p
\* for the orders of expired_orders.
RECURSIVE Restocked(_, _)
Restocked(expired_orders, p) ==
    IF expired_orders = {} THEN 0
    ELSE LET order == CHOOSE o \in expired_orders : TRUE
         IN Ordered(orders[order].items, p)
            + Restocked(expired_orders \ {order}, p)

\* cleanup_expired_orders: expired_orders are the pending orders created
\* before the cutoff; every item's quantity is added to its product's stock,
\* then the orders are cancelled.
cleanup_expired_orders(expired_orders) ==
    /\ expired_orders \subseteq {o \in DOMAIN orders : orders[o].status = "pending"}
    /\ stock' = [p \in DOMAIN stock |-> stock[p] + Restocked(expired_orders, p)]
    /\ orders' = [o \in DOMAIN orders |->
                     IF o \in expired_orders
                     THEN [orders[o] EXCEPT !.status = "cancelled"]
                     ELSE orders[o]]
    /\ UNCHANGED <<queue, running, submitted, failures, catalog>>

\* The worker process of an execution is lost: with task_acks_late and
\* task_reject_on_worker_lost the broker delivers the message again, and
\* nothing of the execution is left but what it wrote.
WorkerLost(w) ==
    LET e == running[w]
    IN /\ Executing(w)
       /\ Faults(FALSE)
       /\ queue' = queue \cup {Message(e.name, e.args, e.retries)}
       /\ running' = [running EXCEPT ![w] = NoExecution]
       /\ UNCHANGED <<stock, orders, submitted, catalog>>

\* The other specifications run no task.
NoTasks ==
    /\ stock = <<>>
    /\ orders = <<>>
    /\ queue = {}
    /\ running = [w \in TaskWorkers |-> NoExecution]
    /\ submitted = 0

----------------------------------------------------------------------------
(* Specification *)

Init ==
    /\ categories = <<>>
    /\ products = <<>>
    /\ orderitems = {}
    /\ nextCategoryId = 1
    /\ nextProductId = 1
    /\ cache = <<>>
    /\ paginated \in BOOLEAN
    /\ last = NoRequest
    /\ prev = NoRequest
    /\ swept = {}
    /\ updated = {}
    /\ requests = 0
    /\ pc = [p \in Workers |-> "idle"]
    /\ call = [p \in Workers |-> NoCall]
    /\ failures = 0
    /\ NoTasks

Next ==
    \/ \E c \in Collections, params \in Params : List(c, params)
    \/ \E c \in Collections, id \in CategoryIds \cup ProductIds : Retrieve(c, id)
    \/ Featured
    \/ Discounted
    \/ \E slug \in Slugs : CreateCategory(slug)
    \/ \E id \in CategoryIds, slug \in Slugs : UpdateCategory(id, slug)
    \/ \E id \in CategoryIds : DestroyCategory(id)
    \/ \E payload \in CreatePayloads : CreateProduct(payload)
    \/ \E id \in ProductIds : \E payload \in PatchPayloads(id) : UpdateProduct(id, payload)
    \/ \E id \in ProductIds : DestroyProduct(id)
    \/ \E id \in ProductIds : PlaceOrderItem(id)
    \/ \E key \in DOMAIN cache : Expire(key)

Spec == Init /\ [][Next]_vars

----------------------------------------------------------------------------
(* Specification of the requests in flight *)

MaxStepId == 1

StepIds == 1..MaxStepId

StepParams == {EmptyParams, [EmptyParams EXCEPT !.ordering = "-id"]}

\* Init: the rows an admin has created before the workers start, one
\* category and no product or one product of it.

StepInit ==
    /\ categories = <<[slug |-> 1]>>
    /\ products \in {<<>>} \cup {<<[name |-> r.name, price |-> r.price,
                                     discount_price |-> r.discount_price,
                                     is_featured |-> r.is_featured,
                                     category |-> 1]>> : r \in CreatePayloads}
    /\ orderitems = {}
    /\ nextCategoryId = 2
    /\ nextProductId = Len(products) + 1
    /\ cache = <<>>
    /\ paginated \in BOOLEAN
    /\ last = NoRequest
    /\ prev = NoRequest
    /\ swept = {}
    /\ updated = {}
    /\ requests = 0
    /\ pc = [p \in Workers |-> "idle"]
    /\ call = [p \in Workers |-> NoCall]
    /\ failures = 0
    /\ NoTasks

\* Creates in flight on collection c: each will take an id.
Creating(c) ==
    Cardinality({q \in Workers : InFlight(q) /\ call[q].op = "create"
                                 /\ call[q].collection = c /\ ~call[q].written})

\* A request is taken by the first free worker.
Take(p) == \A q \in Workers : q < p => InFlight(q)

StartRead(p, user) ==
    /\ Take(p)
    /\ \/ \E c \in Collections, params \in StepParams :
              Start(p, user, "list", c, NoId, params, NoBody)
       \/ \E c \in Collections, id \in StepIds :
              Start(p, user, "retrieve", c, id, EmptyParams, NoBody)
       \/ \E action \in {"featured", "discounted"} :
              Start(p, user, action, "products", NoId, EmptyParams, NoBody)

StartWrite(p, user) ==
    /\ Take(p)
    /\ \/ \E slug \in Slugs :
              /\ nextCategoryId + Creating("categories") <= MaxCategoryId
              /\ Start(p, user, "create", "categories", NoId, EmptyParams,
                       [slug |-> slug])
       \/ \E action \in {"update", "partial_update"}, id \in StepIds, slug \in Slugs :
              Start(p, user, action, "categories", id, EmptyParams, [slug |-> slug])
       \/ \E c \in Collections, id \in StepIds :
              Start(p, user, "destroy", c, id, EmptyParams, NoBody)
       \/ \E payload \in CreatePayloads :
              /\ nextProductId + Creating("products") <= MaxProductId
              /\ Start(p, user, "create", "products", NoId, EmptyParams, payload)
       \/ \E action \in {"update", "partial_update"}, id \in StepIds :
              \E payload \in PatchPayloads(id) :
                  Start(p, user, action, "products", id, EmptyParams, payload)

StepNext ==
    \/ \E p \in Workers, user \in Users : StartRead(p, user)
    \/ \E p \in Workers, user \in Users : StartWrite(p, user)
    \/ \E p \in Workers, ok \in BOOLEAN : ReadGet(p, ok)
    \/ \E p \in Workers : ReadQuery(p)
    \/ \E p \in Workers, ok \in BOOLEAN : ReadSet(p, ok)
    \/ \E p \in Workers, ok \in BOOLEAN : ListKeysGet(p, ok)
    \/ \E p \in Workers, ok \in BOOLEAN : ListKeysSet(p, ok)
    \/ \E p \in Workers : Write(p)
    \/ \E p \in Workers, ok \in BOOLEAN : InvKeysGet(p, ok)
    \/ \E p \in Workers, ok \in BOOLEAN : InvDelete(p, ok)

StepSpec == StepInit /\ [][StepNext]_vars

----------------------------------------------------------------------------
(* Specification of Product.save called on the model itself                  *)
(* (Product.objects.create, instance.save), past the viewsets.               *)

\* The prices and discount prices a caller may hand to save(): the
\* DecimalFields take negative values too.
SavePrices == (0 - 1)..MaxPrice
SaveDiscounts == {Null} \cup {<<d>> : d \in SavePrices}

SaveRows ==
    [name : Names, price : SavePrices, discount_price : SaveDiscounts,
     is_featured : BOOLEAN, category : {1}]

\* Product.save of the row with primary key id (a new row takes the next
\* id): clean() first, and the row is written only when it returns.  In the
\* record of the call, status is 500 when save raised and 200 when it returned.
ProductSave(id, row) ==
    /\ id \in DOMAIN products \cup {nextProductId}
    /\ id <= MaxProductId
    /\ IF ProductCleanRaises(row)
       THEN /\ UNCHANGED <<products, nextProductId>>
            /\ last' = Request("save", "products", id, EmptyParams, 500, FALSE,
                               0, Dict(row), {}, {}, {}, FALSE)
       ELSE /\ products' = With(products, id, row)
            /\ nextProductId' = IF id = nextProductId THEN id + 1 ELSE nextProductId
            /\ last' = Request("save", "products", id, EmptyParams, 200, FALSE,
                               0, Dict(row), {}, {}, {}, FALSE)
    /\ UNCHANGED <<categories, orderitems, nextCategoryId, cache, paginated,
                   prev, swept, updated, requests>>
    /\ UNCHANGED workers

SaveInit ==
    /\ categories = <<[slug |-> 1]>>
    /\ products = <<>>
    /\ orderitems = {}
    /\ nextCategoryId = 2
    /\ nextProductId = 1
    /\ cache = <<>>
    /\ paginated = FALSE
    /\ last = NoRequest
    /\ prev = NoRequest
    /\ swept = {}
    /\ updated = {}
    /\ requests = 0
    /\ pc = [p \in Workers |-> "idle"]
    /\ call = [p \in Workers |-> NoCall]
    /\ failures = 0
    /\ NoTasks

SaveNext == \E id \in ProductIds, row \in SaveRows : ProductSave(id, row)

SaveSpec == SaveInit /\ [][SaveNext]_vars

----------------------------------------------------------------------------
(* Specification of the tasks: the orders and the stock are there, the       *)
(* application enqueues MaxSubmits tasks at most, the workers keep taking    *)
(* messages and executing them.                                              *)

TaskInit ==
    /\ categories = <<>>
    /\ products = <<>>
    /\ orderitems = {}
    /\ nextCategoryId = 1
    /\ nextProductId = 1
    /\ cache = <<>>
    /\ paginated = FALSE
    /\ last = NoRequest
    /\ prev = NoRequest
    /\ swept = {}
    /\ updated = {}
    /\ requests = 0
    /\ pc = [p \in Workers |-> "idle"]
    /\ call = [p \in Workers |-> NoCall]
    /\ failures = 0
    /\ stock \in [TaskProducts -> StockLevels]
    /\ orders \in [OrderIds -> [status : {"pending"}, items : OrderShapes,
                                 deducted : {[p \in TaskProducts |-> 0]}]]
    /\ queue = {}
    /\ running = [w \in TaskWorkers |-> NoExecution]
    /\ submitted = 0

\* A step of a worker.
TaskStep ==
    \/ \E w \in TaskWorkers, msg \in queue : TaskStart(w, msg)
    \/ \E w \in TaskWorkers : ProcessGet(w)
    \/ \E w \in TaskWorkers : ProcessCancel(w)
    \/ \E w \in TaskWorkers : ProcessReduce(w)
    \/ \E w \in TaskWorkers : ProcessComplete(w)
    \/ \E w \in TaskWorkers, ok \in BOOLEAN : ProcessNotifyEmail(w, ok)
    \/ \E w \in TaskWorkers, ok \in BOOLEAN : ProcessNotifyAlert(w, ok)
    \/ \E w \in TaskWorkers, ok \in BOOLEAN : EmailRun(w, ok)
    \/ \E w \in TaskWorkers, ok \in BOOLEAN : AlertRun(w, ok)

TaskNext ==
    \/ \E name \in RetriedTasks, order_id \in OrderIds \cup {MissingOrder} :
           Submit(name, order_id)
    \/ TaskStep

\* The workers do not stop while a message waits or a task is in execution.
TaskSpec == TaskInit /\ [][TaskNext]_vars /\ WF_vars(TaskStep)

\* The tasks with worker processes that may be lost in the middle of an
\* execution.
RedeliveryNext ==
    \/ TaskNext
    \/ \E w \in TaskWorkers : WorkerLost(w)

RedeliverySpec == TaskInit /\ [][RedeliveryNext]_vars

\* The tasks with the periodic cleanup of the pending orders that are older
\* than a day.
CleanupNext ==
    \/ TaskNext
    \/ \E expired_orders \in SUBSET OrderIds : cleanup_expired_orders(expired_orders)

CleanupSpec == TaskInit /\ [][CleanupNext]_vars

----------------------------------------------------------------------------
(* Specification of the read requests with the tasks that write products:    *)
(* one category and at most one product are there, products are created,     *)
(* listed and retrieved, and the tasks run between the requests.             *)

MaxBatchRequests == 4

Batch == requests < MaxBatchRequests

BatchNext ==
    \/ Batch /\ List("products", EmptyParams)
    \/ \E id \in ProductIds : Batch /\ Retrieve("products", id)
    \/ Batch /\ Featured
    \/ Batch /\ Discounted
    \/ \E payload \in CreatePayloads : Batch /\ CreateProduct(payload)
    \/ \E id \in ProductIds : PlaceOrderItem(id)
    \/ \E price_updates \in PriceUpdates : Batch /\ bulk_update_prices(price_updates)
    \/ \E top_product_ids \in SUBSET ProductIds :
           Batch /\ update_product_popularity(top_product_ids)

BatchSpec == StepInit /\ [][BatchNext]_vars

----------------------------------------------------------------------------
(* Specification of process_order_async for several orders at once: each     *)
(* order has one item of product 1, the messages of all of them wait in the  *)
(* broker, and no call of the broker or of the mail server raises.           *)

MaxRacingOrders == 2

RacingOrders == 1..MaxRacingOrders

RacingInit ==
    /\ categories = <<>>
    /\ products = <<>>
    /\ orderitems = {}
    /\ nextCategoryId = 1
    /\ nextProductId = 1
    /\ cache = <<>>
    /\ paginated = FALSE
    /\ last = NoRequest
    /\ prev = NoRequest
    /\ swept = {}
    /\ updated = {}
    /\ requests = 0
    /\ pc = [p \in Workers |-> "idle"]
    /\ call = [p \in Workers |-> NoCall]
    /\ failures = 0
    /\ stock \in [TaskProducts -> StockLevels]
    /\ orders \in [RacingOrders ->
                      [status : {"pending"},
                       items : {<<l>> : l \in {l \in OrderLines : l.product = 1}},
                       deducted : {[p \in TaskProducts |-> 0]}]]
    /\ queue = {Message("process_order_async", <<o>>, 0) : o \in RacingOrders}
    /\ running = [w \in TaskWorkers |-> NoExecution]
    /\ submitted = MaxRacingOrders

RacingNext ==
    \/ \E w \in TaskWorkers, msg \in queue : TaskStart(w, msg)
    \/ \E w \in TaskWorkers : ProcessGet(w)
    \/ \E w \in TaskWorkers : ProcessCancel(w)
    \/ \E w \in TaskWorkers : ProcessReduce(w)
    \/ \E w \in TaskWorkers : ProcessComplete(w)
    \/ \E w \in TaskWorkers : ProcessNotifyEmail(w, TRUE)
    \/ \E w \in TaskWorkers : ProcessNotifyAlert(w, TRUE)
    \/ \E w \in TaskWorkers : EmailRun(w, TRUE)
    \/ \E w \in TaskWorkers : AlertRun(w, TRUE)

RacingSpec == RacingInit /\ [][RacingNext]_vars

----------------------------------------------------------------------------
(* Specification of the requests with the cache's expiry as a fair step:     *)
(* the requests stop after MaxLiveRequests, and an entry written with a      *)
(* timeout does not outlive it.                                              *)

MaxLiveRequests == 3

\* The keys of the lists, details and derived views.
ContentKeys ==
    {get_cache_key_list(c, EmptyParams) : c \in Collections}
    \cup {retrieve_cache_key(c, id) : c \in Collections,
                                      id \in CategoryIds \cup ProductIds}
    \cup {FeaturedKey, DiscountedKey}

\* The cache backend drops an entry whose timeout has run out.
Lapse(key) ==
    /\ key \in DOMAIN cache
    /\ HasTtl(key)
    /\ cache' = CacheDelete(cache, key)
    /\ UNCHANGED <<store, paginated, last, prev, swept, updated, requests>>
    /\ UNCHANGED workers

\* The requests have not stopped yet.
Live == requests < MaxLiveRequests

LiveNext ==
    \/ \E c \in Collections, params \in Params : Live /\ List(c, params)
    \/ \E c \in Collections, id \in CategoryIds \cup ProductIds :
           Live /\ Retrieve(c, id)
    \/ Live /\ Featured
    \/ Live /\ Discounted
    \/ \E slug \in Slugs : Live /\ CreateCategory(slug)
    \/ \E id \in CategoryIds, slug \in Slugs : Live /\ UpdateCategory(id, slug)
    \/ \E id \in CategoryIds : Live /\ DestroyCategory(id)
    \/ \E payload \in CreatePayloads : Live /\ CreateProduct(payload)
    \/ \E id \in ProductIds : \E payload \in PatchPayloads(id) :
           Live /\ UpdateProduct(id, payload)
    \/ \E id \in ProductIds : Live /\ DestroyProduct(id)
    \/ \E id \in ProductIds : PlaceOrderItem(id)
    \/ \E key \in ContentKeys : Lapse(key)

LiveSpec ==
    /\ Init
    /\ [][LiveNext]_vars
    /\ \A key \in ContentKeys : WF_vars(Lapse(key))

----------------------------------------------------------------------------
(* Properties *)

Succeeded(r) == r.status \in {200, 201, 204}

ListKey(c) == get_cache_key_list(c, EmptyParams)

\* C1: after an update changed an entity whose detail was cached, the next
\* retrieve of that id is a cache miss and returns the updated representation.
C1_DetailFreshAfterUpdate ==
    (last.op = "retrieve" /\ last.after) =>
        /\ ~last.hit
        /\ last.status = 200
        /\ last.data = DetailData(last.collection, last.id)

C3_DestroyClearsCaches ==
    (last.op = "destroy" /\ Succeeded(last)) =>
        /\ retrieve_cache_key(last.collection, last.id) \notin DOMAIN cache
        /\ ListKey(last.collection) \notin DOMAIN cache
        /\ last.collection = "products" =>
               FeaturedKey \notin DOMAIN cache /\ DiscountedKey \notin DOMAIN cache

\* An entity that destroy must refuse: a product referenced by an order item,
\* or a category holding such a product.
HasDependents(c, id) ==
    \/ c = "products" /\ id \in DOMAIN products /\ id \in orderitems
    \/ c = "categories" /\ id \in DOMAIN categories
           /\ \E p \in DOMAIN products :
                  products[p].category = id /\ p \in orderitems

\* C4: a destroy request for a product referenced by an order item (or for a
\* category holding one) is answered 400 and changes neither the tables nor
\* any cache entry nor the registry.
C4_RefusedDestroyChangesNothing ==
    [][(/\ requests' # requests
        /\ last'.op = "destroy"
        /\ HasDependents(last'.collection, last'.id))
       => (/\ last'.status = 400
           /\ UNCHANGED <<categories, products, orderitems, cache>>)]_vars

C4_Witness ==
    /\ last.op = "destroy"
    /\ last.collection = "products"
    /\ last.status = 400
    /\ HasDependents("products", last.id)
    /\ ListKey("products") \in DOMAIN cache
    /\ list_keys_key("products") \in DOMAIN cache

\* C5: a successful create, update or destroy of a product leaves
\* product_featured and product_discounted absent from the cache.
C5_DerivedViewsCleared ==
    (last.op \in {"create", "update", "destroy"} /\ last.collection = "products"
        /\ Succeeded(last)) =>
        FeaturedKey \notin DOMAIN cache /\ DiscountedKey \notin DOMAIN cache

\* The featured view was populated, non-empty, right before an update that
\* left the view's content as it was.
C5_Witness ==
    /\ last.op = "update"
    /\ last.collection = "products"
    /\ Succeeded(last)
    /\ prev.op = "featured"
    /\ prev.data.items # <<>>
    /\ FeaturedData = prev.data

\* The request names a search term, an ordering or a category slug.
Filtered(params) ==
    params.search # 0 \/ params.ordering # "" \/ params.category__slug # 0

\* C6: a list request with a non-empty search, ordering or category__slug
\* makes no cache call, leaves the cache as it is and returns the result of
\* the query on the current tables.
C6_BypassTouchesNoCache ==
    [][(/\ requests' # requests
        /\ last'.op = "list"
        /\ Filtered(last'.params))
       => (/\ cache' = cache
           /\ last'.gets \cup last'.sets \cup last'.dels = {}
           /\ ~last'.hit
           /\ last'.data = ListData(last'.collection, last'.params))]_vars

\* A bypassing list answers differently from the cached list of its collection.
C6_Witness ==
    /\ last.op = "list"
    /\ Filtered(last.params)
    /\ ListKey(last.collection) \in DOMAIN cache
    /\ last.data # cache[ListKey(last.collection)]

\* The key namespace of the specification, collection in {category, product}.
Namespace ==
    {"category_list:", "product_list:", "category_list_keys",
     "product_list_keys", "product_featured", "product_discounted"}
    \cup {"category_detail:" \o ToString(id) : id \in CategoryIds \cup ProductIds}
    \cup {"product_detail:" \o ToString(id) : id \in CategoryIds \cup ProductIds}

C14_InvalidateIdempotent ==
    \A c \in Collections, id \in {NoId} \cup CategoryIds \cup ProductIds :
        LET once == invalidate_related_caches(c, id, cache)
        IN /\ list_keys_key(c) \notin DOMAIN once
           /\ ~InvalidateRaises(c, id, once)
           /\ invalidate_related_caches(c, id, once) = once

\* The first invalidation has just swept a registered list.
C14_Witness ==
    /\ last.op = "update"
    /\ Succeeded(last)
    /\ ListKey(last.collection) \in last.dels
    /\ prev.op = "list"
    /\ prev.collection = last.collection
    /\ list_keys_key(last.collection) \notin DOMAIN cache
    /\ invalidate_related_caches(last.collection, last.id, cache) = cache

\* C17: a destroy that succeeds removes the targeted row and nothing else: no
\* product goes with its category, no order item with its product.
C17_DestroyRemovesOnlyTarget ==
    [][(/\ requests' # requests
        /\ last'.op = "destroy"
        /\ Succeeded(last'))
       => (/\ orderitems' = orderitems
           /\ last'.collection = "categories" =>
                  /\ products' = products
                  /\ categories' = Without(categories, {last'.id})
           /\ last'.collection = "products" =>
                  /\ categories' = categories
                  /\ products' = Without(products, {last'.id}))]_vars

\* C19: every stored product has price >= 0 and, when its discount_price is
\* not null, discount_price < price.
C19_SavedProductsValid ==
    \A id \in DOMAIN products :
        /\ products[id].price >= 0
        /\ products[id].discount_price # Null =>
               products[id].discount_price[1] < products[id].price

\* What the query behind a content key returns on the tables as they are.
Current(key) ==
    IF key = FeaturedKey THEN FeaturedData
    ELSE IF key = DiscountedKey THEN DiscountedData
    ELSE IF \E c \in Collections : key = ListKey(c)
    THEN ListData(CHOOSE c \in Collections : key = ListKey(c), EmptyParams)
    ELSE LET e == CHOOSE e \in Collections \X (CategoryIds \cup ProductIds) :
                      key = retrieve_cache_key(e[1], e[2])
         IN IF e[2] \in DOMAIN Table(e[1]) THEN DetailData(e[1], e[2]) ELSE NoValue

Stale(key) == key \in DOMAIN cache /\ cache[key] # Current(key)

\* C21: once the requests have stopped, every list, detail or derived-view
\* entry that differs from what its query returns now is eventually gone
\* from the cache.
C21_StaleEventuallyRemoved ==
    \A key \in ContentKeys : Stale(key) ~> (key \notin DOMAIN cache)

\* A detail entry that no invalidation deletes is stale.
C21_Witness ==
    /\ last.op = "update"
    /\ Succeeded(last)
    /\ Stale(retrieve_cache_key(last.collection, last.id))

\* C23: when a create, update or destroy has gone through, every key its
\* collection's registry listed before the request is absent from the cache,
\* and so is the registry entry.
C23_SweepClearsRegistry ==
    [][(/\ requests' # requests
        /\ last'.op \in {"create", "update", "destroy"}
        /\ Succeeded(last'))
       => (/\ \A key \in Range(RegisteredKeys(last'.collection, cache)) :
                  key \notin DOMAIN cache'
           /\ list_keys_key(last'.collection) \notin DOMAIN cache')]_vars

\* A create swept the list that was populated and registered right before it.
C23_Witness ==
    /\ last.op = "create"
    /\ last.collection = "products"
    /\ Succeeded(last)
    /\ prev.op = "list"
    /\ prev.collection = "products"
    /\ {ListKey("products"), list_keys_key("products")} \subseteq prev.sets
    /\ {ListKey("products"), list_keys_key("products")} \cap DOMAIN cache = {}

\* Both spellings of the detail keys of every entity.
DetailKeys ==
    {retrieve_cache_key(c, id) : c \in Collections,
                                 id \in CategoryIds \cup ProductIds}
    \cup {get_cache_key_detail(c, id) : c \in Collections,
                                        id \in CategoryIds \cup ProductIds}

\* C25: a create that went through passes no detail key to cache.delete and
\* leaves every cache entry as it was but for the list keys its collection's
\* registry listed, the registry entry and, for products, the two derived
\* views, which are gone.
C25_CreateKeepsDetails ==
    [][(/\ requests' # requests
        /\ last'.op = "create"
        /\ Succeeded(last'))
       => LET c == last'.collection
              removed == Range(RegisteredKeys(c, cache)) \cup {list_keys_key(c)}
                         \cup (IF c = "products"
                               THEN {FeaturedKey, DiscountedKey} ELSE {})
          IN /\ last'.dels \cap DetailKeys = {}
             /\ removed \cap DetailKeys = {}
             /\ cache' = [key \in DOMAIN cache \ removed |-> cache[key]]]_vars

\* A product was created while a product's detail and the product list were
\* cached: the list is gone, the detail is there.
C25_Witness ==
    /\ last.op = "create"
    /\ last.collection = "products"
    /\ Succeeded(last)
    /\ ListKey("products") \in last.dels
    /\ retrieve_cache_key("products", 1) \in DOMAIN cache
    /\ ListKey("products") \notin DOMAIN cache

\* C26: a list, retrieve or derived-view request that finds its key populated
\* sets and deletes nothing, leaves the cache (the registry with it) and the
\* tables as they are and runs no query.
C26_HitHasNoSideEffects ==
    [][(/\ requests' # requests
        /\ last'.op \in ReadActions
        /\ ReadKey(last') \in DOMAIN cache)
       => (/\ cache' = cache
           /\ last'.sets = {}
           /\ last'.dels = {}
           /\ last'.gets = {ReadKey(last')}
           /\ last'.queries = 0
           /\ last'.data = cache[ReadKey(last')]
           /\ UNCHANGED store)]_vars

\* C27: a destroy of an existing entity whose check or delete raised is
\* answered 400, whichever of the two raised, and leaves the cache, the
\* registry and the tables as they are: the invalidation is not run.
C27_DestroyFailureUniform ==
    [][(/\ requests' # requests
        /\ last'.op = "destroy"
        /\ last'.id \in DOMAIN Table(last'.collection)
        /\ ~Succeeded(last'))
       => (/\ last'.status = 400
           /\ last'.dels = {}
           /\ cache' = cache
           /\ UNCHANGED store)]_vars

\* Category.delete raised for a category whose list was cached and registered.
C27_Witness ==
    /\ last.op = "destroy"
    /\ last.collection = "categories"
    /\ last.id \in DOMAIN categories
    /\ ProductsWithOrderItems(last.id) # {}
    /\ ~Succeeded(last)
    /\ {ListKey("categories"), list_keys_key("categories")} \subseteq DOMAIN cache

\* C8: a retrieve right after a populating retrieve of the same entity is a
\* hit, returns what the populating one returned and runs no query.
C8_DetailHitAfterPopulate ==
    (/\ last.op = "retrieve"
     /\ prev.op = "retrieve"
     /\ prev.collection = last.collection
     /\ prev.id = last.id) =>
        /\ last.hit
        /\ last.status = 200
        /\ last.queries = 0
        /\ last.data = prev.data

C8_Witness ==
    /\ last.op = "retrieve"
    /\ prev.op = "retrieve"
    /\ prev.collection = last.collection
    /\ prev.id = last.id
    /\ last.hit
    /\ last.collection = "products"

\* C9: an unparameterized list right after a populating one of the same
\* collection is a hit, returns the cached value and runs no query, whatever
\* the collection holds.
C9_ListHitAfterPopulate ==
    (/\ last.op = "list"
     /\ last.params = EmptyParams
     /\ prev.op = "list"
     /\ prev.collection = last.collection) =>
        /\ last.hit
        /\ last.queries = 0
        /\ last.data = prev.data

\* C10: a featured (discounted) request right after a populating one is
\* served from product_featured (product_discounted) with no query, whatever
\* the view holds.
C10_DerivedHitAfterPopulate ==
    (last.op \in {"featured", "discounted"} /\ prev.op = last.op) =>
        /\ last.hit
        /\ last.queries = 0
        /\ last.data = prev.data

----------------------------------------------------------------------------
\* The keys of the cached product representations.
ProductContentKeys ==
    {ListKey("products"), FeaturedKey, DiscountedKey}
    \cup {retrieve_cache_key("products", id) : id \in ProductIds}

\* C31: when an update or a destroy of a category has gone through, every
\* product list, product detail or derived-view entry that agreed with the
\* tables before the request agrees with them after it.
C31_CategoryMutationKeepsProductsCoherent ==
    [][(/\ requests' # requests
        /\ last'.op \in {"update", "destroy"}
        /\ last'.collection = "categories"
        /\ Succeeded(last'))
       => \A key \in ProductContentKeys : ~Stale(key) => ~Stale(key)']_vars

----------------------------------------------------------------------------
\* C32: a list request that comes right after a populating list of the same
\* collection, both with empty search, ordering and category__slug, and that
\* asks for a page on which the query returns something else, is not
\* answered with what the first one cached.
C32_HitAnswersTheRequest ==
    (/\ last.op = "list"
     /\ prev.op = "list"
     /\ prev.collection = last.collection
     /\ ~Filtered(last.params)
     /\ ~Filtered(prev.params)
     /\ last.params.page # prev.params.page
     /\ ListData(last.collection, last.params) # ListData(prev.collection, prev.params))
    => last.data # prev.data

----------------------------------------------------------------------------
\* C33: when bulk_update_prices or update_product_popularity has run, every
\* product list, product detail, product_featured or product_discounted
\* entry that agreed with the tables before the task agrees with them after
\* it.
C33_TasksKeepCachesCoherent ==
    [][(/\ requests' # requests
        /\ last'.op \in {"bulk_update_prices", "update_product_popularity"})
       => \A key \in ProductContentKeys : ~Stale(key) => ~Stale(key)']_vars

----------------------------------------------------------------------------
(* Properties of the requests in flight (StepSpec) *)

Responded(p) == pc[p] = "done"

GetLabels == {"list_get", "retrieve_get", "view_get"}

\* The cache calls inside the try of a populating miss.
PopulateLabels ==
    {"list_set", "retrieve_set", "view_set", "list_keys_get", "list_keys_set"}

InvalidateLabels == InvDeleteLabels \cup {"inv_keys_get"}

\* C11: when a cache call of a populating miss raises (the set of the list,
\* detail or derived-view key, the registry read or the registry write), the
\* request is answered 200 with the result its own query computed.
C11_WriteFailureStillAnswers ==
    \A p \in Workers :
        call[p].raised \cap PopulateLabels # {} =>
            /\ Responded(p)
            /\ call[p].status = 200
            /\ ~call[p].hit
            /\ call[p].queries = 1
            /\ call[p].data # NoValue
            /\ call[p].response = call[p].data

\* The registry write of a list raised after the list key was set.
C11_Witness ==
    \E p \in Workers :
        /\ "list_keys_set" \in call[p].raised
        /\ Responded(p)
        /\ call[p].collection = "products"
        /\ call[p].response.items # <<>>
        /\ call[p].cache_key \in DOMAIN cache

\* C12: when the cache.get of a list, retrieve or derived view raises, the
\* request goes on as on a miss: it runs its query and answers with the
\* result, no error.
C12_ReadFailureIsMiss ==
    \A p \in Workers :
        call[p].raised \cap GetLabels # {} =>
            /\ call[p].status # 500
            /\ Responded(p) =>
                   /\ call[p].queries = 1
                   /\ call[p].status = 200 => call[p].response = call[p].data

\* The keys whose cache.delete raised during the call's invalidation.
FailedDeletes(cl) == {InvKey(cl, label) : label \in cl.raised \cap InvDeleteLabels}

\* C13: when one cache.delete of an invalidation raises, the invalidation goes
\* on: the registry key and, for products, both derived-view keys are still
\* deleted (but for the key whose delete raised).
C13_SweepContinues ==
    \A p \in Workers :
        (Responded(p) /\ call[p].raised \cap InvDeleteLabels # {}) =>
            \A key \in ({list_keys_key(call[p].collection)}
                        \cup (IF call[p].collection = "products"
                              THEN {FeaturedKey, DiscountedKey} ELSE {}))
                       \ FailedDeletes(call[p]) :
                key \in call[p].dels

\* C15: with no request in flight, a list key that holds a value is listed in
\* its collection's registry.
C15_ListKeyRegistered ==
    (\A p \in Workers : ~InFlight(p)) =>
        \A c \in Collections :
            ListKey(c) \in DOMAIN cache =>
                /\ list_keys_key(c) \in DOMAIN cache
                /\ ListKey(c) \in Range(cache[list_keys_key(c)].keys)

\* C16: a mutation request is at a statement of the invalidation, or has
\* deleted a key, or had a delete raise, only once its database write is made;
\* a request whose write was not made deletes nothing.
C16_InvalidateAfterWrite ==
    \A p \in Workers :
        (\/ pc[p] \in InvalidateLabels
         \/ call[p].dels # {}
         \/ call[p].raised \cap InvalidateLabels # {}) => call[p].written

\* A destroy wrote, then swept a cached list.
C16_Witness ==
    \E p \in Workers :
        /\ Responded(p)
        /\ call[p].op = "destroy"
        /\ call[p].status = 204
        /\ call[p].written
        /\ ListKey(call[p].collection) \in call[p].dels
        /\ call[p].before # ListData(call[p].collection, EmptyParams)

\* C18: a create, update, partial update or destroy by an anonymous or
\* non-admin user is answered 403 without a database write or a cache call;
\* no list, retrieve or derived-view request is answered 403.
C18_WritesNeedAdmin ==
    \A p \in Workers :
        /\ (call[p].op \in {"create", "update", "destroy"}
                /\ call[p].user # "admin") =>
               /\ Responded(p)
               /\ call[p].status = 403
               /\ ~call[p].written
               /\ call[p].sets = {}
               /\ call[p].dels = {}
               /\ call[p].raised = {}
        /\ call[p].op \in ReadActions => call[p].status # 403

\* A regular user's update of a listed, cached product was refused.
C18_Witness ==
    \E p \in Workers :
        /\ call[p].op = "update"
        /\ call[p].user = "regular"
        /\ call[p].collection = "products"
        /\ call[p].status = 403
        /\ call[p].id \in DOMAIN products
        /\ ListKey("products") \in DOMAIN cache

\* C20: when a list's populate overlapped a mutation of its collection and,
\* the mutation answered, the list key holds the listing from before the
\* mutation's write, the populate's cache.set of the key came after the
\* invalidation's cache.delete of that key.
C20_StaleOnlyIfSetAfterDelete ==
    \A p \in Workers, q \in Workers :
        (/\ p # q
         /\ call[p].op = "list"
         /\ call[q].op \in {"create", "update", "destroy"}
         /\ call[p].collection = call[q].collection
         /\ ListKey(call[q].collection) \in call[p].sets
         /\ q \in call[p].overlapped
         /\ Responded(q)
         /\ call[q].status = SuccessStatus(call[q].op)
         /\ ListKey(call[q].collection) \in DOMAIN cache
         /\ cache[ListKey(call[q].collection)] = call[q].before
         /\ call[q].before # ListData(call[q].collection, EmptyParams))
        => q \in call[p].late

\* C30: a mutation that answered with success, and whose invalidation read
\* the registry when the collection's list key held a value, has deleted that
\* list key.
C30_SweepRemovesEarlierList ==
    \A q \in Workers :
        (/\ call[q].op \in {"create", "update", "destroy"}
         /\ Responded(q)
         /\ call[q].status = SuccessStatus(call[q].op)
         /\ call[q].found)
        => ListKey(call[q].collection) \in call[q].dels

\* How many times key stands in a registry value.
Occurrences(keys, key) == Cardinality({i \in DOMAIN keys : keys[i] = key})

\* Two reads of the same key that were in flight together, both missed, both
\* ran their query and both set the key, with no cache call raising and no
\* write to the tables by a third request.
BothPopulated(p, q) ==
    /\ p # q
    /\ q \in call[p].overlapped
    /\ call[p].op \in ReadActions
    /\ call[q].op = call[p].op
    /\ call[p].cache_key # None
    /\ call[q].cache_key = call[p].cache_key
    /\ Responded(p) /\ Responded(q)
    /\ call[p].cache_key \in call[p].sets \cap call[q].sets
    /\ call[p].raised = {} /\ call[q].raised = {}
    /\ \A r \in Workers : ~call[r].written /\ (r \notin {p, q} => ~InFlight(r))

\* C22: when two reads of the same key in flight together have both missed
\* and both populated, each ran its query once, both wrote the same value,
\* the key holds what the query returns on the tables as they are, and for a
\* list the registry holds the list key exactly once.
C22_DoublePopulateBenign ==
    \A p \in Workers, q \in Workers :
        BothPopulated(p, q) =>
            /\ ~call[p].hit /\ ~call[q].hit
            /\ call[p].queries = 1 /\ call[q].queries = 1
            /\ call[p].data = call[q].data
            /\ call[p].response = call[p].data
            /\ call[p].cache_key \in DOMAIN cache
            /\ cache[call[p].cache_key] = call[p].data
            /\ call[p].op = "list" =>
                   /\ call[p].data = ListData(call[p].collection, EmptyParams)
                   /\ list_keys_key(call[p].collection) \in DOMAIN cache
                   /\ Occurrences(cache[list_keys_key(call[p].collection)].keys,
                                  call[p].cache_key) = 1

\* Two product lists both missed, both set the list key and both wrote the
\* registry.
C22_Witness ==
    \E p \in Workers, q \in Workers :
        /\ BothPopulated(p, q)
        /\ call[p].op = "list"
        /\ call[p].collection = "products"
        /\ call[p].data.items # <<>>
        /\ list_keys_key("products") \in call[p].sets \cap call[q].sets

\* C24: a registry entry lists its collection's list key and nothing else,
\* at most once; and the populate of a list whose key is already listed
\* leaves the registry entry as it is.
C24_RegistryHoldsOneKey ==
    \A c \in Collections :
        list_keys_key(c) \in DOMAIN cache =>
            LET keys == cache[list_keys_key(c)].keys
            IN /\ Len(keys) <= 1
               /\ Range(keys) \subseteq {ListKey(c)}
               /\ ListKey(c) \in Range(keys) =>
                      ListPopulate(cache, c, ListKey(c),
                                   ListData(c, EmptyParams))[list_keys_key(c)]
                          = cache[list_keys_key(c)]

\* A list set its key and found it registered by the list in flight with it.
C24_Witness ==
    \E p \in Workers, q \in Workers :
        /\ p # q
        /\ q \in call[p].overlapped
        /\ call[p].op = "list" /\ call[q].op = "list"
        /\ call[p].collection = call[q].collection
        /\ Responded(p) /\ Responded(q)
        /\ call[p].raised = {} /\ call[q].raised = {}
        /\ call[p].sets = {ListKey(call[p].collection)}
        /\ list_keys_key(call[q].collection) \in call[q].sets
        /\ cache[list_keys_key(call[q].collection)].keys
               = <<ListKey(call[q].collection)>>

----------------------------------------------------------------------------
(* Properties of the tasks (TaskSpec) *)

Finished(w) == running[w].pc = "done"

\* The messages an execution sent with .delay, without the one of self.retry.
Delayed(e) == {msg \in e.sent : msg.name # e.name}

\* An item of the order asks for more than the stock of its product.
Short(items) == \E i \in DOMAIN items : stock[items[i].product] < items[i].quantity

\* C28: when process_order_async reads an order of which an item asks for
\* more than its product's stock, its next statement is the cancellation, and
\* the cancellation sets the order's status to cancelled and ends the task
\* with no stock changed, no product saved and no message sent.
C28_CancelChangesNothing ==
    /\ [][\A w \in TaskWorkers :
             (/\ running[w].pc = "get"
              /\ running'[w] # running[w]
              /\ running[w].args[1] \in DOMAIN orders
              /\ Short(orders[running[w].args[1]].items))
             => running'[w].pc = "cancel"]_vars
    /\ [][\A w \in TaskWorkers :
             (running[w].pc = "cancel" /\ running'[w] # running[w])
             => (/\ orders'[running[w].args[1]].status = "cancelled"
                 /\ stock' = stock
                 /\ queue' = queue
                 /\ running'[w].state = "SUCCESS"
                 /\ running'[w].saved = {}
                 /\ running'[w].sent = {})]_vars

\* The second item of an order was short, the first was not: the order is
\* cancelled and the first item's product has its stock.
C28_Witness ==
    \E w \in TaskWorkers :
        /\ Finished(w)
        /\ running[w].name = "process_order_async"
        /\ running[w].status = "cancelled"
        /\ running[w].insufficient_stock = {2}
        /\ orders[running[w].args[1]].status = "cancelled"
        /\ orders[running[w].args[1]].items[1].product = 1
        /\ orders[running[w].args[1]].items[2].product = 2
        /\ stock[1] = MaxStock

\* C29: an execution of send_order_confirmation_email or process_order_async
\* that finds no order fails without sending a retry; one that ends with
\* another exception sends its message again with retries + 1 while retries
\* is below 3, and fails for good at retries 3; no message carries more
\* than 3 retries; and every such task that is enqueued eventually has an
\* execution that ends in SUCCESS or FAILURE.
C29_RetriesBounded ==
    /\ [](\A w \in TaskWorkers :
             LET e == running[w]
                 again == Message(e.name, e.args, e.retries + 1)
             IN /\ e.retries <= 3
                /\ (Finished(w) /\ e.name \in RetriedTasks) =>
                       /\ e.exc = "" <=> e.state = "SUCCESS"
                       /\ e.exc = "DoesNotExist" =>
                              e.state = "FAILURE" /\ e.sent = {}
                       /\ e.exc \notin {"", "DoesNotExist"} =>
                              IF e.retries < 3
                              THEN e.state = "RETRY" /\ again \in e.sent
                              ELSE e.state = "FAILURE" /\ again \notin e.sent)
    /\ [](\A msg \in queue : msg.retries <= 3)
    /\ \A name \in RetriedTasks, order_id \in OrderIds \cup {MissingOrder} :
           (Message(name, <<order_id>>, 0) \in queue)
               ~> (\E w \in TaskWorkers :
                      /\ Finished(w)
                      /\ running[w].name = name
                      /\ running[w].args = <<order_id>>
                      /\ running[w].state \in {"SUCCESS", "FAILURE"})

\* The fourth attempt of process_order_async failed like the three before.
C29_Witness ==
    \E w \in TaskWorkers :
        /\ Finished(w)
        /\ running[w].name = "process_order_async"
        /\ running[w].retries = 3
        /\ running[w].state = "FAILURE"
        /\ running[w].exc = "OperationalError"

\* C34: what the executions of process_order_async have taken off a
\* product's stock for an order is never more than the order asks of that
\* product.
C34_DeductedAtMostOnce ==
    \A o \in DOMAIN orders, p \in TaskProducts :
        orders[o].deducted[p] <= Ordered(orders[o].items, p)

\* What the executions have taken off the stock of product p, over the
\* orders up to n.
RECURSIVE Deducted(_, _)
Deducted(n, p) ==
    IF n = 0 THEN 0
    ELSE (IF n \in DOMAIN orders THEN orders[n].deducted[p] ELSE 0)
         + Deducted(n - 1, p)

\* C35: the stock of a product is never negative, and a step in which
\* executions of process_order_async deduct a quantity from a product takes
\* that quantity, no less, off the product's stock.
C35_NoDeductionLost ==
    /\ [](\A p \in DOMAIN stock : stock[p] >= 0)
    /\ [][\A p \in DOMAIN stock :
             stock[p] - stock'[p]
                 = Deducted(MaxRacingOrders, p)' - Deducted(MaxRacingOrders, p)]_vars

\* What the executions had taken off the stock of product p for the orders
\* that a step moves from pending to cancelled.
RECURSIVE DeductedFor(_, _)
DeductedFor(cancelled, p) ==
    IF cancelled = {} THEN 0
    ELSE LET order == CHOOSE o \in cancelled : TRUE
         IN orders[order].deducted[p] + DeductedFor(cancelled \ {order}, p)

\* C36: a step adds to the stock of a product no more than what had been
\* deducted from it for the orders the step cancels.
C36_RestoresOnlyDeducted ==
    [][\A p \in DOMAIN stock :
          stock'[p] - stock[p]
              <= DeductedFor({o \in DOMAIN orders :
                                 /\ orders[o].status = "pending"
                                 /\ orders'[o].status = "cancelled"}, p)]_vars

\* C37: an order that is completed or cancelled keeps its status.
C37_StatusTerminal ==
    [][\A o \in DOMAIN orders :
          orders[o].status \in {"completed", "cancelled"}
              => orders'[o].status = orders[o].status]_vars

====
